---------------------------- MODULE Spec2Model ----------------------------
(***************************************************************************)
(* Model of the monitor execution engine of uptime-monitor:                *)
(*   server/monitorService.ts  computeStatus, runCheck, tick,              *)
(*                             startMonitor, stopMonitor, triggerCheckNow  *)
(*   server/notifier.js        notifyStatusChange and the module-level     *)
(*                             timer                                       *)
(*   server/index.ts           the endpoint routes that write the          *)
(*                             monitor_endpoints table                     *)
(*                                                                         *)
(* Time is the database clock NOW() in whole seconds.  One step of the     *)
(* model is one run-to-completion turn of the JavaScript event loop: the   *)
(* code between two awaits, with the promise reactions it triggers.        *)
(***************************************************************************)
EXTENDS Integers, Sequences, FiniteSets, Bags, TLC

(***************************************************************************)
(* Bounds of the model                                                     *)
(***************************************************************************)
MaxClockSteps == 1
MaxTickCalls == 2
MaxOps == 1
MaxChecks == 2
MaxCount == 3
MaxSeqLen == 5
MaxFleet == 3
MaxTargets == 2

(***************************************************************************)
(* Program constants                                                       *)
(***************************************************************************)
MinInterval == 5
BatchLimit == 50
InitEventEndpointId == 12
\* runTcpCheck: the default port (494) and the largest valid port (497)
DefaultTcpPort == 80
MaxPort == 65535

EndpointIds == {1, 2}
Statuses == {"pending", "up", "down"}
Intervals == {MinInterval, 2 * MinInterval}
Retries == {1, 2}

\* monitor_groups rows, and monitor_endpoints.group_id
GroupIds == {1}
GroupOf == [e \in EndpointIds |-> 1]

Max(a, b) == IF a >= b THEN a ELSE b

(***************************************************************************)
(* computeStatus (monitorService.ts 173-202)                               *)
(***************************************************************************)
\* Number(v) of what a row can hand over: null gives 0, a text that is no
\* number gives NaN, a number itself
JsNumber(v) ==
  CASE v.is = "null" -> [nan |-> FALSE, n |-> 0]
    [] v.is = "text" -> [nan |-> TRUE, n |-> 0]
    [] OTHER -> [nan |-> FALSE, n |-> v.n]

\* x || fallback on a number: NaN and 0 are falsy
JsOr(x, fallback) == IF x.nan \/ x.n = 0 THEN fallback ELSE x.n

\* the threshold without Math.max
ToRetriesUnfloored(v) == JsOr(JsNumber(v), 1)

\* lines 174-175: Math.max(1, Number(v) || 1)
ToRetries(v) == Max(1, JsOr(JsNumber(v), 1))

\* lines 174-175 on the value of an INT column
FloorRetries(x) == ToRetries([is |-> "number", n |-> x])

\* PassStatus with the recovery threshold applied from every status
PassStatusAlwaysGated(status, successes, upRetries) ==
  IF successes >= upRetries THEN "up" ELSE status

\* PassStatus with the recovery threshold compared by > instead of >=
PassStatusStrict(status, successes, upRetries) ==
  IF status = "down"
    THEN (IF successes > upRetries THEN "up" ELSE status)
    ELSE "up"

\* the branch taken on a passing verdict, lines 185-189
PassStatus(status, successes, upRetries) ==
  IF status = "down"
    THEN (IF successes >= upRetries THEN "up" ELSE status)
    ELSE "up"

\* FailStatus with the failure threshold compared by > instead of >=
FailStatusStrict(status, failures, downRetries) ==
  IF failures > downRetries THEN "down" ELSE status

\* FailStatus that applies the failure threshold only from up
FailStatusUngated(status, failures, downRetries) ==
  IF status = "up"
    THEN (IF failures >= downRetries THEN "down" ELSE status)
    ELSE "down"

\* FailStatus that falls back to pending below the threshold
FailStatusResets(status, failures, downRetries) ==
  IF failures >= downRetries THEN "down" ELSE "pending"

\* the branch taken on a failing verdict, lines 194-198
FailStatus(status, failures, downRetries) ==
  IF status = "up"
    THEN (IF failures >= downRetries THEN "down" ELSE status)
    ELSE (IF failures >= downRetries THEN "down" ELSE status)

\* computeStatus that leaves the opposite counter as it was
computeStatusKeepsCounters(endpoint, checkPassed) ==
  IF checkPassed
    THEN [status    |-> PassStatus(endpoint.status, endpoint.consecutive_successes + 1,
                                   FloorRetries(endpoint.up_retries)),
          failures  |-> endpoint.consecutive_failures,
          successes |-> endpoint.consecutive_successes + 1]
    ELSE [status    |-> FailStatus(endpoint.status, endpoint.consecutive_failures + 1,
                                   FloorRetries(endpoint.down_retries)),
          failures  |-> endpoint.consecutive_failures + 1,
          successes |-> endpoint.consecutive_successes]

computeStatus(endpoint, checkPassed) ==
  LET downRetries == FloorRetries(endpoint.down_retries)
      upRetries   == FloorRetries(endpoint.up_retries)
      failures    == endpoint.consecutive_failures
      successes   == endpoint.consecutive_successes
      status      == endpoint.status
  IN  IF checkPassed
        THEN [status    |-> PassStatus(status, successes + 1, upRetries),
              failures  |-> 0,
              successes |-> successes + 1]
        ELSE [status    |-> FailStatus(status, failures + 1, downRetries),
              failures  |-> failures + 1,
              successes |-> 0]


(***************************************************************************)
(* State                                                                   *)
(***************************************************************************)
VARIABLES
  now,            \* the database clock NOW(), in seconds
  db,             \* table monitor_endpoints: endpoint id -> row
  timer,          \* monitorService.ts 77: TRUE when the module variable holds a timer
  intervals,      \* the number of setInterval timers created and not cleared
  isTickRunning,  \* monitorService.ts 78
  tickPc,         \* position of the one tick() body: "idle", "query", "await"
  ticks,          \* history: tick() invocations, and those that returned at the guard
  checks,         \* the runCheck executions in flight, a bag of check records
  notified,       \* history: the events notifyStatusChange was invoked with
  notifierTimer,  \* notifier.js 184: TRUE while the module-level timeout is pending
  alive,          \* FALSE once the process has been terminated
  ops,            \* number of API operations performed (bounded by MaxOps)
  cs,             \* computeStatus applied to drawn inputs (specification SpecCS)
  seq,            \* one endpoint checked sequentially (specification SpecSeq)
  hist,           \* history: verdicts returned, check runs appended, events emitted
  nt,             \* one notifyStatusChange call in detail (specification SpecNotify)
  pr,             \* one probe executor in detail (specification SpecProbe)
  sel,            \* the query of tick() on drawn rows (specification SpecBatch)
  cmp             \* the comparator applied to drawn values (specification SpecCompare)

vars == <<now, db, timer, intervals, isTickRunning, tickPc, ticks, checks, notified,
          notifierTimer, alive, ops, cs, seq, hist, nt, pr, sel, cmp>>

\* a row as POST /api/endpoints creates it, due at once (index.ts 806-846)
NewRow(interval, downRetries, upRetries, t) ==
  [present               |-> TRUE,
   status                |-> "pending",
   consecutive_failures  |-> 0,
   consecutive_successes |-> 0,
   interval_seconds      |-> interval,
   down_retries          |-> downRetries,
   up_retries            |-> upRetries,
   is_paused             |-> FALSE,
   next_check_at         |-> t]

\* what is left of a row after DELETE /api/endpoints/:id
AbsentRow == [NewRow(MinInterval, 1, 1, 0) EXCEPT !.present = FALSE]

NoComputation == [status |-> "pending", failures |-> 0, successes |-> 0]

InFlight == BagToSet(checks)
One(c) == SetToBag({c})
\* check c moves on to position pc
Moved(c, pc) == (checks (-) One(c)) (+) One([c EXCEPT !.pc = pc])

CsIdle ==
  [endpoint |-> AbsentRow, checkPassed |-> FALSE, done |-> FALSE,
   result |-> NoComputation, js |-> [is |-> "null", n |-> 0], threshold |-> 0]
SeqIdle == [verdicts |-> <<>>, persisted |-> <<>>]
\* the history is kept in the specifications whose properties read it;
\* runs holds the rows of monitor_check_runs, unhandled the origins of the
\* rejections no handler was attached to, changes the number of UPDATEs of
\* runCheck that changed a persisted status, dispatched the number of calls
\* of notifyStatusChange by runCheck, streak the number of failed runs
\* appended for an endpoint since its latest passed run, and of passed runs
\* since its latest failed run, written the status and counters the UPDATEs
\* of runCheck have left in a row, payload the latest monitor:checked
\* payload, returned the calls of startMonitor and stopMonitor that returned
\* at their guard
NoPayload ==
  [endpointId |-> 0, status |-> "pending", consecutiveFailures |-> 0,
   consecutiveSuccesses |-> 0]

HistOff ==
  [on |-> FALSE, verdicts |-> 0, runs |-> <<>>, events |-> 0,
   manual |-> [e \in EndpointIds |-> 0], unhandled |-> {},
   changes |-> 0, dispatched |-> 0,
   streak |-> [e \in EndpointIds |-> [failed |-> 0, passed |-> 0]],
   written |-> {}, payload |-> NoPayload,
   returned |-> [start |-> 0, stop |-> 0], detail |-> FALSE]
HistOn == [HistOff EXCEPT !.on = TRUE]
\* the history with changes, dispatched, streak, written, payload and
\* returned kept too
HistFull == [HistOn EXCEPT !.detail = TRUE]
Recorded(h) == IF hist.on THEN h ELSE hist
Detailed(new, old) == IF hist.detail THEN new ELSE old
NtIdle == [pc |-> "unused"]
PrIdle == [pc |-> "unused"]
SelIdle == [done |-> FALSE]

CmpIdle == [done |-> FALSE]

Init ==
  /\ now = 0
  /\ db = [e \in EndpointIds |-> NewRow(MinInterval, 2, 2, 0)]
  /\ timer = FALSE
  /\ intervals = 0
  /\ isTickRunning = FALSE
  /\ tickPc = "idle"
  /\ ticks = [calls |-> 0, skipped |-> 0]
  /\ checks = EmptyBag
  /\ notified = {}
  /\ notifierTimer = TRUE
  /\ alive = TRUE
  /\ ops = 0
  /\ cs = CsIdle
  /\ seq = SeqIdle
  /\ hist = HistOff
  /\ nt = NtIdle
  /\ pr = PrIdle
  /\ sel = SelIdle
  /\ cmp = CmpIdle

(***************************************************************************)
(* Scheduler: tick, startMonitor, stopMonitor (monitorService.ts 644-682)  *)
(***************************************************************************)
Min(a, b) == IF a <= b THEN a ELSE b

\* a promise rejects with no handler attached: the runtime either reports it
\* and goes on, or terminates the process, and with it every check in flight
UnhandledRejection(remaining) ==
  \/ /\ checks' = remaining
     /\ UNCHANGED <<timer, intervals, notifierTimer, alive>>
  \/ /\ checks' = EmptyBag
     /\ timer' = FALSE
     /\ intervals' = 0
     /\ notifierTimer' = FALSE
     /\ alive' = FALSE

\* tick() without its guard
tickSkipsNever == FALSE

\* line 645: if (isTickRunning) return
tickSkips == isTickRunning

\* a tick() whose flag is cleared after the try block and not in a finally
tickEndsWithoutFinally(failed) ==
  /\ isTickRunning' = (IF failed THEN isTickRunning ELSE FALSE)
  /\ tickPc' = "idle"

\* tick() leaves its try block, by its end or by an exception (failed): the
\* finally of 663-665 clears the flag
tickEnds(failed) ==
  /\ isTickRunning' = FALSE
  /\ tickPc' = "idle"

\* tick() up to its first await: the guard, the flag, the query is issued
tick ==
  IF tickSkips
    THEN /\ ticks' = [calls |-> ticks.calls + 1, skipped |-> ticks.skipped + 1]
         /\ UNCHANGED <<isTickRunning, tickPc>>
    ELSE /\ ticks' = [ticks EXCEPT !.calls = @ + 1]
         /\ isTickRunning' = TRUE
         /\ tickPc' = "query"

\* the setInterval callback of line 671
TimerFires ==
  /\ alive /\ intervals > 0
  /\ ticks.calls < MaxTickCalls
  /\ tick
  /\ UNCHANGED <<now, db, timer, intervals, checks, notified, notifierTimer, alive, ops, cs, seq, hist, nt, pr, sel, cmp>>

\* startMonitor without its guard
startMonitorReturnsNever == FALSE

\* line 669: if (timer) return
startMonitorReturns == timer

\* lines 668-676: the guard, setInterval, the first tick()
startMonitor ==
  /\ alive
  /\ IF startMonitorReturns
       THEN /\ hist.returned.start < MaxOps
            /\ hist' = Recorded([hist EXCEPT !.returned.start = Detailed(@ + 1, @)])
            /\ UNCHANGED <<timer, intervals, isTickRunning, tickPc, ticks>>
       ELSE /\ ticks.calls < MaxTickCalls
            /\ timer' = TRUE
            /\ intervals' = intervals + 1
            /\ tick
            /\ UNCHANGED hist
  /\ UNCHANGED <<now, db, checks, notified, notifierTimer, alive, ops, cs, seq,
                 nt, pr, sel, cmp>>

\* line 679: if (!timer) return
stopMonitorReturns == ~timer

\* lines 678-682: the guard, clearInterval(timer), timer = null
stopMonitor ==
  /\ alive
  /\ IF stopMonitorReturns
       THEN /\ hist.returned.stop < MaxOps
            /\ hist' = Recorded([hist EXCEPT !.returned.stop = Detailed(@ + 1, @)])
            /\ UNCHANGED <<timer, intervals>>
       ELSE /\ timer' = FALSE
            /\ intervals' = intervals - 1
            /\ UNCHANGED hist
  /\ UNCHANGED <<now, db, isTickRunning, tickPc, ticks, checks, notified,
                 notifierTimer, alive, ops, cs, seq, nt, pr, sel, cmp>>

\* the query of tick() that selects paused rows too
DueInIgnoringPause(rows, t) ==
  {e \in DOMAIN rows : rows[e].present /\ rows[e].next_check_at <= t}

\* WHERE e.is_paused = 0 AND e.next_check_at <= NOW(), at time t (the row of
\* the group joined at line 655 exists by fk_endpoint_group)
DueIn(rows, t) ==
  {e \in DOMAIN rows :
     rows[e].present /\ ~rows[e].is_paused /\ rows[e].next_check_at <= t}

\* ORDER BY e.next_check_at ASC: the orders the rows of S can be returned in
Ordered(rows, S) ==
  {q \in [1..Cardinality(S) -> S] :
     /\ \A e \in S : \E i \in 1..Cardinality(S) : q[i] = e
     /\ \A i \in 1..Cardinality(S) : \A j \in 1..Cardinality(S) :
          i < j => rows[q[i]].next_check_at <= rows[q[j]].next_check_at}

\* the results the query of lines 649-660 can return, with LIMIT limit
QueryResults(rows, t, limit) ==
  {SubSeq(q, 1, Min(Len(q), limit)) : q \in Ordered(rows, DueIn(rows, t))}

Due == DueIn(db, now)

\* the query of tick() without its WHERE clause
BatchesUnfiltered == {{e \in EndpointIds : db[e].present}}

\* the endpoints of a result of the query, LIMIT 50
Batches ==
  {{q[i] : i \in 1..Len(q)} : q \in QueryResults(db, now, BatchLimit)}

\* runCheck up to its first await (lines 540-559): the snapshot it works on
StartedCheck(e, origin) ==
  [pc       |-> "probe",
   id       |-> e,
   origin   |-> origin,
   awaited  |-> (origin = "tick"),
   endpoint |-> db[e],
   next     |-> NoComputation]

\* the query of lines 649-660 answers; line 662 starts the checks of the batch
TickQueryDone ==
  /\ alive /\ tickPc = "query"
  /\ \E B \in Batches :
       /\ BagCardinality(checks) + Cardinality(B) <= MaxChecks
       /\ checks' = checks (+) SetToBag({StartedCheck(e, "tick") : e \in B})
       /\ IF B = {}
            THEN tickEnds(FALSE)
            ELSE tickPc' = "await" /\ UNCHANGED isTickRunning
  /\ UNCHANGED <<now, db, timer, intervals, ticks, notified, notifierTimer, alive, ops, cs, seq, hist, nt, pr, sel, cmp>>

\* the query rejects: finally (664), then tick()'s promise rejects with no handler
\* (void tick(), 672 and 675)
TickQueryFails ==
  /\ alive /\ tickPc = "query"
  /\ tickEnds(TRUE)
  /\ UnhandledRejection(checks)
  /\ hist' = Recorded([hist EXCEPT !.unhandled = @ \cup {"query"}])
  /\ UNCHANGED <<now, db, ticks, notified, ops, cs, seq, nt, pr, sel, cmp>>

(***************************************************************************)
(* runCheck (monitorService.ts 540-642)                                    *)
(***************************************************************************)
\* runCheck c returns: Promise.all (662) resolves with the last one of the batch
Resolve(c) ==
  /\ checks' = checks (-) One(c)
  /\ IF c.awaited /\ ~\E d \in BagToSet(checks (-) One(c)) : d.awaited
       THEN tickEnds(FALSE)
       ELSE UNCHANGED <<isTickRunning, tickPc>>
  /\ UNCHANGED <<timer, intervals, notifierTimer, alive>>

\* the checks Promise.all no longer waits for
Orphaned(B) ==
  [r \in {[d EXCEPT !.awaited = FALSE] : d \in BagToSet(B)} |->
     CopiesIn(r, B) + CopiesIn([r EXCEPT !.awaited = TRUE], B)]

\* runCheck c throws.  In a batch Promise.all rejects at once, finally (664)
\* runs and tick() rejects, while the other checks of the batch go on.  A
\* manual check rejects the promise of the route handler (index.ts 961-983),
\* which has no catch.  A check whose tick has already rejected is still
\* handled by that Promise.all.
Reject(c) ==
  IF c.awaited
    THEN /\ tickEnds(TRUE)
         /\ UnhandledRejection(Orphaned(checks (-) One(c)))
         /\ hist' = Recorded([hist EXCEPT !.unhandled = @ \cup {"check"}])
    ELSE /\ UNCHANGED <<isTickRunning, tickPc>>
         /\ IF c.origin = "manual"
              THEN /\ UnhandledRejection(checks (-) One(c))
                   /\ hist' = Recorded([hist EXCEPT !.unhandled = @ \cup {"manual"}])
              ELSE /\ checks' = checks (-) One(c)
                   /\ UNCHANGED <<timer, intervals, notifierTimer, alive, hist>>

\* lines 549-561: the probe returns its verdict, computeStatus, UPDATE is issued
ProbeReturns(c, checkPassed) ==
  /\ alive /\ c.pc = "probe"
  /\ checks' = (checks (-) One(c)) (+)
                 One([c EXCEPT !.pc = "update",
                               !.next = computeStatus(c.endpoint, checkPassed)])
  /\ hist' = Recorded([hist EXCEPT !.verdicts = @ + 1])
  /\ UNCHANGED <<now, db, timer, intervals, isTickRunning, tickPc, ticks, notified,
                 notifierTimer, alive, ops, cs, seq, nt, pr, sel, cmp>>

\* a probe throws (createClient outside the try of 366, nc.close() of 486)
ProbeRaises(c) ==
  /\ alive /\ c.pc = "probe"
  /\ Reject(c)
  /\ UNCHANGED <<now, db, ticks, notified, ops, cs, seq, nt, pr, sel, cmp>>

\* an UPDATE that writes the status and leaves the two counters
UpdatedRowStatusOnly(row, c, t) ==
  [row EXCEPT !.status = c.next.status,
              !.next_check_at = t + c.endpoint.interval_seconds]

\* an UPDATE that writes back every column of the snapshot runCheck works on
UpdatedRowFromSnapshot(row, c, t) ==
  [c.endpoint EXCEPT !.status = c.next.status,
                     !.consecutive_failures = c.next.failures,
                     !.consecutive_successes = c.next.successes,
                     !.next_check_at = t + c.endpoint.interval_seconds]

\* the status and the counters row holds, as endpoint e's
Stored(row, e) ==
  [endpointId           |-> e,
   status               |-> row.status,
   consecutiveFailures  |-> row.consecutive_failures,
   consecutiveSuccesses |-> row.consecutive_successes]

\* the row the UPDATE of lines 564-588 leaves
UpdatedRow(row, c, t) ==
  [row EXCEPT !.status = c.next.status,
              !.consecutive_failures = c.next.failures,
              !.consecutive_successes = c.next.successes,
              !.next_check_at = t + c.endpoint.interval_seconds]

UpdateDone(c) ==
  /\ alive /\ c.pc = "update"
  /\ db' = [db EXCEPT ![c.id] = IF @.present THEN UpdatedRow(@, c, now) ELSE @]
  /\ checks' = Moved(c, "insert")
  /\ hist' = Recorded([hist EXCEPT
                         !.changes =
                           Detailed(IF db'[c.id].status # db[c.id].status
                                      THEN @ + 1 ELSE @, @),
                         !.written =
                           Detailed(IF db[c.id].present
                                      THEN @ \cup {Stored(db'[c.id], c.id)}
                                      ELSE @, @)])
  /\ UNCHANGED <<now, timer, intervals, isTickRunning, tickPc, ticks, notified,
                 notifierTimer, alive, ops, cs, seq, nt, pr, sel, cmp>>

UpdateFails(c) ==
  /\ alive /\ c.pc = "update"
  /\ Reject(c)
  /\ UNCHANGED <<now, db, ticks, notified, ops, cs, seq, nt, pr, sel, cmp>>

\* line 623
StatusChanged(c) ==
  /\ c.endpoint.status # c.next.status
  /\ c.next.status \in {"up", "down"}

StatusChangeEvent(c) ==
  [endpointId     |-> c.id,
   previousStatus |-> c.endpoint.status,
   currentStatus  |-> c.next.status]

\* notifier.js 151-182, the invocation
notifyStatusChange(event) ==
  notified' = notified \cup {event}

\* a payload built from the row runCheck was called with
CheckedPayloadFromSnapshot(c) == Stored(c.endpoint, c.id)

\* the payload of monitor:checked, lines 606-619: status and counters
CheckedPayload(c) ==
  [endpointId           |-> c.id,
   status               |-> c.next.status,
   consecutiveFailures  |-> c.next.failures,
   consecutiveSuccesses |-> c.next.successes]

\* a runCheck without its INSERT
InsertedRunsNone(c) == <<>>

\* the rows the INSERT of 590-604 appends to monitor_check_runs
InsertedRuns(c) == <<[endpoint_id |-> c.id, status |-> c.next.status]>>

\* the INSERT of 590-604 succeeds, monitor:checked is emitted (621), and either
\* notifyStatusChange is called and awaited (623-639) or runCheck returns
InsertDone(c) ==
  /\ alive /\ c.pc = "insert"
  /\ db[c.id].present
  /\ IF StatusChanged(c)
       THEN /\ notifyStatusChange(StatusChangeEvent(c))
            /\ checks' = Moved(c, "notify")
            /\ UNCHANGED <<isTickRunning, tickPc, timer, intervals, notifierTimer, alive>>
       ELSE /\ Resolve(c)
            /\ UNCHANGED notified
  /\ hist' = Recorded([hist EXCEPT !.runs = @ \o InsertedRuns(c),
                                  !.events = @ + 1,
                                  !.payload = Detailed(CheckedPayload(c), @),
                                  !.dispatched =
                                    Detailed(IF StatusChanged(c) THEN @ + 1 ELSE @, @),
                                  !.streak[c.id] =
                                    Detailed(IF c.next.failures = 0
                                               THEN [failed |-> 0, passed |-> @.passed + 1]
                                               ELSE [failed |-> @.failed + 1, passed |-> 0],
                                             @)])
  /\ UNCHANGED <<now, db, ticks, ops, cs, seq, nt, pr, sel, cmp>>

\* the INSERT rejects: fk_check_endpoint when the row is gone, or a database error
InsertFails(c) ==
  /\ alive /\ c.pc = "insert"
  /\ Reject(c)
  /\ UNCHANGED <<now, db, ticks, notified, ops, cs, seq, nt, pr, sel, cmp>>

\* notifyStatusChange returns (it catches every delivery error, 171-179)
NotifyDone(c) ==
  /\ alive /\ c.pc = "notify"
  /\ Resolve(c)
  /\ UNCHANGED <<now, db, ticks, notified, ops, cs, seq, hist, nt, pr, sel, cmp>>

\* notifier.js 184-201: the timeout set when the module is loaded
NotifierInitTimeout ==
  /\ alive /\ notifierTimer
  /\ notifierTimer' = FALSE
  /\ notifyStatusChange([endpointId     |-> InitEventEndpointId,
                         previousStatus |-> "up",
                         currentStatus  |-> "down"])
  /\ UNCHANGED <<now, db, timer, intervals, isTickRunning, tickPc, ticks, checks, alive,
                 ops, cs, seq, hist, nt, pr, sel, cmp>>

(***************************************************************************)
(* The routes that write monitor_endpoints or start a check (index.ts)     *)
(***************************************************************************)
\* PUT /api/endpoints/:id, the UPDATE of lines 879-921
PutEndpoint(e, interval, downRetries, upRetries) ==
  /\ alive /\ ops < MaxOps
  /\ db[e].present
  /\ db' = [db EXCEPT ![e] = [@ EXCEPT !.interval_seconds = interval,
                                       !.down_retries = downRetries,
                                       !.up_retries = upRetries,
                                       !.next_check_at = now]]
  /\ ops' = ops + 1
  /\ UNCHANGED <<now, timer, intervals, isTickRunning, tickPc, ticks, checks, notified,
                 notifierTimer, alive, cs, seq, hist, nt, pr, sel, cmp>>

\* POST /api/endpoints/:id/pause, lines 992-1001
PauseEndpoint(e) ==
  /\ alive /\ ops < MaxOps
  /\ db[e].present
  /\ db' = [db EXCEPT ![e] = [@ EXCEPT !.is_paused = TRUE,
                                       !.next_check_at = now + db[e].interval_seconds]]
  /\ ops' = ops + 1
  /\ UNCHANGED <<now, timer, intervals, isTickRunning, tickPc, ticks, checks, notified,
                 notifierTimer, alive, cs, seq, hist, nt, pr, sel, cmp>>

\* POST /api/endpoints/:id/resume, lines 1019-1028
ResumeEndpoint(e) ==
  /\ alive /\ ops < MaxOps
  /\ db[e].present
  /\ db' = [db EXCEPT ![e] = [@ EXCEPT !.is_paused = FALSE,
                                       !.next_check_at = now]]
  /\ ops' = ops + 1
  /\ UNCHANGED <<now, timer, intervals, isTickRunning, tickPc, ticks, checks, notified,
                 notifierTimer, alive, cs, seq, hist, nt, pr, sel, cmp>>

\* the rows of monitor_check_runs that are left when endpoint e is deleted
\* (fk_check_endpoint, ON DELETE CASCADE)
Cascaded(rows, e) ==
  LET kept == {i \in 1..Len(rows) : rows[i].endpoint_id # e}
      RECURSIVE Pick(_)
      Pick(i) == IF i = 0 THEN <<>>
                 ELSE IF i \in kept THEN Append(Pick(i - 1), rows[i])
                 ELSE Pick(i - 1)
  IN  Pick(Len(rows))

\* DELETE /api/endpoints/:id, line 951
DeleteEndpoint(e) ==
  /\ alive /\ ops < MaxOps
  /\ db[e].present
  /\ db' = [db EXCEPT ![e] = AbsentRow]
  /\ ops' = ops + 1
  /\ hist' = Recorded([hist EXCEPT !.runs = Cascaded(@, e)])
  /\ UNCHANGED <<now, timer, intervals, isTickRunning, tickPc, ticks, checks, notified,
                 notifierTimer, alive, cs, seq, nt, pr, sel, cmp>>

\* POST /api/groups/:id/pause, the UPDATE of lines 707-716
PauseGroup(g) ==
  /\ alive /\ ops < MaxOps
  /\ db' = [e \in EndpointIds |->
              IF db[e].present /\ GroupOf[e] = g
                THEN [db[e] EXCEPT !.is_paused = TRUE,
                                   !.next_check_at = now + db[e].interval_seconds]
                ELSE db[e]]
  /\ ops' = ops + 1
  /\ UNCHANGED <<now, timer, intervals, isTickRunning, tickPc, ticks, checks, notified,
                 notifierTimer, alive, cs, seq, hist, nt, pr, sel, cmp>>

\* POST /api/groups/:id/resume, the UPDATE of lines 742-751
ResumeGroup(g) ==
  /\ alive /\ ops < MaxOps
  /\ db' = [e \in EndpointIds |->
              IF db[e].present /\ GroupOf[e] = g
                THEN [db[e] EXCEPT !.is_paused = FALSE,
                                   !.next_check_at = now]
                ELSE db[e]]
  /\ ops' = ops + 1
  /\ UNCHANGED <<now, timer, intervals, isTickRunning, tickPc, ticks, checks, notified,
                 notifierTimer, alive, cs, seq, hist, nt, pr, sel, cmp>>

\* runCheck that starts on a paused endpoint
runCheckRefusesNever(endpoint) == FALSE

\* runCheck that also refuses an endpoint that is not due
runCheckRefusesNotDue(endpoint) ==
  endpoint.is_paused \/ endpoint.next_check_at > now

\* line 541: if (Number(endpoint.is_paused) === 1) return null
runCheckRefuses(endpoint) == endpoint.is_paused

\* triggerCheckNow (monitorService.ts 684-689) once getEndpointById has answered:
\* no row, or runCheck returns null for a paused row (541), or the check starts
triggerCheckNow(e) ==
  /\ alive /\ ops < MaxOps
  /\ BagCardinality(checks) < MaxChecks
  /\ IF db[e].present /\ ~runCheckRefuses(db[e])
       THEN checks' = checks (+) One(StartedCheck(e, "manual"))
       ELSE UNCHANGED checks
  /\ ops' = ops + 1
  /\ hist' = Recorded([hist EXCEPT !.manual[e] = @ + 1])
  /\ UNCHANGED <<now, db, timer, intervals, isTickRunning, tickPc, ticks, notified,
                 notifierTimer, alive, cs, seq, nt, pr, sel, cmp>>

\* the clock of the database moves on
AdvanceClock ==
  /\ alive /\ now < MaxClockSteps * MinInterval
  /\ now' = now + MinInterval
  /\ UNCHANGED <<db, timer, intervals, isTickRunning, tickPc, ticks, checks, notified,
                 notifierTimer, alive, ops, cs, seq, hist, nt, pr, sel, cmp>>

\* the steps of the scheduler and of the checks it or a route has started
Engine ==
  \/ TimerFires
  \/ startMonitor
  \/ TickQueryDone
  \/ TickQueryFails
  \/ \E c \in InFlight : \E checkPassed \in BOOLEAN : ProbeReturns(c, checkPassed)
  \/ \E c \in InFlight : ProbeRaises(c)
  \/ \E c \in InFlight : UpdateDone(c)
  \/ \E c \in InFlight : UpdateFails(c)
  \/ \E c \in InFlight : InsertDone(c)
  \/ \E c \in InFlight : InsertFails(c)
  \/ \E c \in InFlight : NotifyDone(c)
  \/ AdvanceClock

\* the requests of the operators
Api ==
  \/ \E e \in EndpointIds : \E i \in Intervals : \E d \in Retries : \E u \in Retries :
       PutEndpoint(e, i, d, u)
  \/ \E e \in EndpointIds : PauseEndpoint(e)
  \/ \E e \in EndpointIds : ResumeEndpoint(e)
  \/ \E e \in EndpointIds : DeleteEndpoint(e)
  \/ \E e \in EndpointIds : triggerCheckNow(e)

(***************************************************************************)
(* Spec: the scheduler, started and stopped, over a fleet of two endpoints *)
(***************************************************************************)
Next == Engine \/ stopMonitor

Spec == Init /\ [][Next]_vars

(***************************************************************************)
(* SpecApi: one endpoint, the scheduler and the operators' requests        *)
(***************************************************************************)
InitApi ==
  /\ now = 0
  /\ db = [e \in EndpointIds |->
             IF e = 1 THEN NewRow(MinInterval, 2, 2, 0) ELSE AbsentRow]
  /\ timer = FALSE
  /\ intervals = 0
  /\ isTickRunning = FALSE
  /\ tickPc = "idle"
  /\ ticks = [calls |-> 0, skipped |-> 0]
  /\ checks = EmptyBag
  /\ notified = {}
  /\ notifierTimer = TRUE
  /\ alive = TRUE
  /\ ops = 0
  /\ cs = CsIdle
  /\ seq = SeqIdle
  /\ hist = HistOff
  /\ nt = NtIdle
  /\ pr = PrIdle
  /\ sel = SelIdle
  /\ cmp = CmpIdle

NextApi == Engine \/ Api

SpecApi == InitApi /\ [][NextApi]_vars

(***************************************************************************)
(* SpecNotifier: one endpoint, the scheduler and the notifier module       *)
(***************************************************************************)
InitNotifier ==
  /\ now = 0
  /\ db = [e \in EndpointIds |->
             IF e = 1 THEN NewRow(MinInterval, 2, 2, 0) ELSE AbsentRow]
  /\ timer = FALSE
  /\ intervals = 0
  /\ isTickRunning = FALSE
  /\ tickPc = "idle"
  /\ ticks = [calls |-> 0, skipped |-> 0]
  /\ checks = EmptyBag
  /\ notified = {}
  /\ notifierTimer = TRUE
  /\ alive = TRUE
  /\ ops = 0
  /\ cs = CsIdle
  /\ seq = SeqIdle
  /\ hist = HistOn
  /\ nt = NtIdle
  /\ pr = PrIdle
  /\ sel = SelIdle
  /\ cmp = CmpIdle

NextNotifier == Engine \/ NotifierInitTimeout

SpecNotifier == InitNotifier /\ [][NextNotifier]_vars

(***************************************************************************)
(* SpecGroups: a group of two endpoints with different intervals, the      *)
(* second one paused or not when the server starts; the operators'         *)
(* requests, and the manual checks they start                              *)
(***************************************************************************)
InitGroups ==
  /\ now = 0
  /\ \E paused \in BOOLEAN :
       db = [e \in EndpointIds |->
               IF e = 1 THEN NewRow(MinInterval, 2, 2, 0)
                        ELSE [NewRow(2 * MinInterval, 2, 2, 0) EXCEPT
                                !.is_paused = paused]]
  /\ timer = FALSE
  /\ intervals = 0
  /\ isTickRunning = FALSE
  /\ tickPc = "idle"
  /\ ticks = [calls |-> 0, skipped |-> 0]
  /\ checks = EmptyBag
  /\ notified = {}
  /\ notifierTimer = FALSE
  /\ alive = TRUE
  /\ ops = 0
  /\ cs = CsIdle
  /\ seq = SeqIdle
  /\ hist = HistOn
  /\ nt = NtIdle
  /\ pr = PrIdle
  /\ sel = SelIdle
  /\ cmp = CmpIdle

\* the steps of the checks in flight
CheckSteps ==
  \/ \E c \in InFlight : \E checkPassed \in BOOLEAN : ProbeReturns(c, checkPassed)
  \/ \E c \in InFlight : ProbeRaises(c)
  \/ \E c \in InFlight : UpdateDone(c)
  \/ \E c \in InFlight : UpdateFails(c)
  \/ \E c \in InFlight : InsertDone(c)
  \/ \E c \in InFlight : InsertFails(c)
  \/ \E c \in InFlight : NotifyDone(c)

GroupApi ==
  \/ \E g \in GroupIds : PauseGroup(g)
  \/ \E g \in GroupIds : ResumeGroup(g)

NextGroups == CheckSteps \/ Api \/ GroupApi \/ AdvanceClock

SpecGroups == InitGroups /\ [][NextGroups]_vars

(***************************************************************************)
(* SpecManual: one endpoint with an interval of two steps of the clock,    *)
(* checked one step ago, so that it is not due; the scheduler and the      *)
(* manual checks POST /api/endpoints/:id/check starts                      *)
(***************************************************************************)
InitManual ==
  /\ now = 0
  /\ db = [e \in EndpointIds |->
             IF e = 1
               THEN [NewRow(2 * MinInterval, 2, 2, MinInterval)
                       EXCEPT !.consecutive_successes = 1]
               ELSE AbsentRow]
  /\ timer = FALSE
  /\ intervals = 0
  /\ isTickRunning = FALSE
  /\ tickPc = "idle"
  /\ ticks = [calls |-> 0, skipped |-> 0]
  /\ checks = EmptyBag
  /\ notified = {}
  /\ notifierTimer = FALSE
  /\ alive = TRUE
  /\ ops = 0
  /\ cs = CsIdle
  /\ seq = SeqIdle
  /\ hist = HistOn
  /\ nt = NtIdle
  /\ pr = PrIdle
  /\ sel = SelIdle
  /\ cmp = CmpIdle

NextManual == Engine \/ \E e \in EndpointIds : triggerCheckNow(e)

SpecManual == InitManual /\ [][NextManual]_vars

\* SpecOverlap: the same steps on an endpoint as POST /api/endpoints creates
\* it, with the history of its check runs kept from the first one
InitOverlap ==
  /\ now = 0
  /\ db = [e \in EndpointIds |->
             IF e = 1 THEN NewRow(MinInterval, 2, 2, 0) ELSE AbsentRow]
  /\ timer = FALSE
  /\ intervals = 0
  /\ isTickRunning = FALSE
  /\ tickPc = "idle"
  /\ ticks = [calls |-> 0, skipped |-> 0]
  /\ checks = EmptyBag
  /\ notified = {}
  /\ notifierTimer = FALSE
  /\ alive = TRUE
  /\ ops = 0
  /\ cs = CsIdle
  /\ seq = SeqIdle
  /\ hist = HistFull
  /\ nt = NtIdle
  /\ pr = PrIdle
  /\ sel = SelIdle
  /\ cmp = CmpIdle

NextOverlap == Engine \/ \E e \in EndpointIds : triggerCheckNow(e)

SpecOverlap == InitOverlap /\ [][NextOverlap]_vars

(***************************************************************************)
(* SpecRuns: the ticks of the scheduler over two endpoints that are due,   *)
(* with the rows of monitor_check_runs and the unhandled rejections kept   *)
(***************************************************************************)
InitRuns ==
  /\ now = 0
  /\ db = [e \in EndpointIds |-> NewRow(MinInterval, 2, 2, 0)]
  /\ timer = FALSE
  /\ intervals = 0
  /\ isTickRunning = FALSE
  /\ tickPc = "idle"
  /\ ticks = [calls |-> 0, skipped |-> 0]
  /\ checks = EmptyBag
  /\ notified = {}
  /\ notifierTimer = FALSE
  /\ alive = TRUE
  /\ ops = 0
  /\ cs = CsIdle
  /\ seq = SeqIdle
  /\ hist = HistFull
  /\ nt = NtIdle
  /\ pr = PrIdle
  /\ sel = SelIdle
  /\ cmp = CmpIdle

NextRuns ==
  startMonitor \/ TimerFires \/ TickQueryDone \/ TickQueryFails \/ CheckSteps

SpecRuns == InitRuns /\ [][NextRuns]_vars

(***************************************************************************)
(* SpecStartStop: startMonitor and stopMonitor called in any order, while  *)
(* the scheduler runs over one endpoint that is due                        *)
(***************************************************************************)
InitStartStop ==
  /\ now = 0
  /\ db = [e \in EndpointIds |->
             IF e = 1 THEN NewRow(MinInterval, 2, 2, 0) ELSE AbsentRow]
  /\ timer = FALSE
  /\ intervals = 0
  /\ isTickRunning = FALSE
  /\ tickPc = "idle"
  /\ ticks = [calls |-> 0, skipped |-> 0]
  /\ checks = EmptyBag
  /\ notified = {}
  /\ notifierTimer = FALSE
  /\ alive = TRUE
  /\ ops = 0
  /\ cs = CsIdle
  /\ seq = SeqIdle
  /\ hist = HistFull
  /\ nt = NtIdle
  /\ pr = PrIdle
  /\ sel = SelIdle
  /\ cmp = CmpIdle

NextStartStop ==
  \/ startMonitor
  \/ stopMonitor
  \/ TimerFires
  \/ TickQueryDone
  \/ TickQueryFails
  \/ CheckSteps

SpecStartStop == InitStartStop /\ [][NextStartStop]_vars

(***************************************************************************)
(* SpecBatch: the query of tick() applied once to a table of MaxFleet rows *)
(* drawn from the rows the table can hold, with the limit drawn too        *)
(***************************************************************************)
FleetIds == 1..MaxFleet
SelTimes == {0, MinInterval, 2 * MinInterval}
SelLimits == 1..MaxFleet

InitBatch ==
  /\ now = 0
  /\ db = [e \in EndpointIds |-> AbsentRow]
  /\ timer = FALSE
  /\ intervals = 0
  /\ isTickRunning = FALSE
  /\ tickPc = "idle"
  /\ ticks = [calls |-> 0, skipped |-> 0]
  /\ checks = EmptyBag
  /\ notified = {}
  /\ notifierTimer = FALSE
  /\ alive = TRUE
  /\ ops = 0
  /\ cs = CsIdle
  /\ seq = SeqIdle
  /\ hist = HistOff
  /\ nt = NtIdle
  /\ pr = PrIdle
  /\ cmp = CmpIdle
  /\ \E paused \in [FleetIds -> BOOLEAN] : \E due \in [FleetIds -> SelTimes] :
     \E t \in SelTimes \ {0} : \E limit \in SelLimits :
       sel = [rows  |-> [e \in FleetIds |->
                          [NewRow(MinInterval, 1, 1, due[e]) EXCEPT
                             !.is_paused = paused[e]]],
              at    |-> t,
              limit |-> limit,
              done  |-> FALSE,
              batch |-> <<>>]

SelApply ==
  /\ ~sel.done
  /\ \E q \in QueryResults(sel.rows, sel.at, sel.limit) :
       sel' = [sel EXCEPT !.done = TRUE, !.batch = q]
  /\ UNCHANGED <<now, db, timer, intervals, isTickRunning, tickPc, ticks, checks, notified,
                 notifierTimer, alive, ops, cs, seq, hist, nt, pr, cmp>>

NextBatch == SelApply

SpecBatch == InitBatch /\ [][NextBatch]_vars

(***************************************************************************)
(* SpecNotify: notifyStatusChange (notifier.js 151-182) called once, with  *)
(* the configuration that config.ts builds from a drawn environment        *)
(***************************************************************************)
\* entries of the "events" list of a target of NOTIFICATION_TARGETS_JSON
RawEventLists == {<<>>, <<"up">>, <<"DOWN ">>, <<"flap", "up">>}

\* "events" of a target: not an array, or one of the lists
RawEvents ==
  {[isArray |-> FALSE, items |-> <<>>]}
    \cup {[isArray |-> TRUE, items |-> l] : l \in RawEventLists}

\* a target of NOTIFICATION_TARGETS_JSON: valid when it has its url, or its
\* token and channel
RawTargets == [valid : BOOLEAN, events : RawEvents]

\* String(event).trim().toLowerCase(), config.ts 26
NormalizeEvent(event) == IF event = "DOWN " THEN "down" ELSE event

\* config.ts 24-28
NormalizeEvents(items) ==
  SelectSeq([i \in 1..Len(items) |-> NormalizeEvent(items[i])],
            LAMBDA event : event = "up" \/ event = "down")

DefaultEvents == <<"up", "down">>

\* normalizeNotificationTarget that keeps a list left empty
normalizeKeepsEmptyEvents(target) ==
  IF ~target.valid
    THEN [null |-> TRUE, events |-> <<>>]
    ELSE [null   |-> FALSE,
          events |-> IF target.events.isArray
                       THEN NormalizeEvents(target.events.items)
                       ELSE DefaultEvents]

\* config.ts 19-60
normalizeNotificationTarget(target) ==
  IF ~target.valid
    THEN [null |-> TRUE, events |-> <<>>]
    ELSE [null   |-> FALSE,
          events |-> IF /\ target.events.isArray
                        /\ Len(NormalizeEvents(target.events.items)) > 0
                       THEN NormalizeEvents(target.events.items)
                       ELSE DefaultEvents]

\* config.ts 62-90; slack: SLACK_BOT_TOKEN and SLACK_CHANNEL_ID are set (and
\* name a target that is not in the list)
parseNotificationTargets(raw, slack) ==
  LET jsonTargets ==
        SelectSeq([i \in 1..Len(raw) |-> normalizeNotificationTarget(raw[i])],
                  LAMBDA target : ~target.null)
  IN  IF slack
        THEN Append(jsonTargets, [null |-> FALSE, events |-> DefaultEvents])
        ELSE jsonTargets

\* notifier.js 3
isValidEvent(status) == status = "up" \/ status = "down"

\* notifyStatusChange that does not look at config.notifications.enabled
NtProceedsWhenDisabled(enabled, status, targets) ==
  isValidEvent(status) /\ Len(targets) > 0

\* notifier.js 155-161: none of the three early returns is taken
NtProceeds(enabled, status, targets) ==
  enabled /\ isValidEvent(status) /\ Len(targets) > 0

\* notifier.js 165-169: the callback of the target does not return early
\* (target.events is an array for every target config.ts builds)
Subscribed(target, status) ==
  \E k \in 1..Len(target.events) : target.events[k] = status

\* notifyStatusChange without its try/catch
CaughtNever == FALSE

\* notifier.js 171-179: the try/catch around notifyTarget
Caught == TRUE

RawTargetLists ==
  UNION {[1..n -> RawTargets] : n \in 0..MaxTargets}

InitNotify ==
  /\ now = 0
  /\ db = [e \in EndpointIds |-> AbsentRow]
  /\ timer = FALSE
  /\ intervals = 0
  /\ isTickRunning = FALSE
  /\ tickPc = "idle"
  /\ ticks = [calls |-> 0, skipped |-> 0]
  /\ checks = EmptyBag
  /\ notified = {}
  /\ notifierTimer = FALSE
  /\ alive = TRUE
  /\ ops = 0
  /\ cs = CsIdle
  /\ seq = SeqIdle
  /\ hist = HistOff
  /\ pr = PrIdle
  /\ sel = SelIdle
  /\ cmp = CmpIdle
  /\ \E enabled \in BOOLEAN : \E raw \in RawTargetLists : \E slack \in BOOLEAN :
     \E status \in Statuses :
       LET targets == parseNotificationTargets(raw, slack)
       IN  nt = [enabled  |-> enabled,
                 raw      |-> raw,
                 slack    |-> slack,
                 targets  |-> targets,
                 status   |-> status,
                 pc       |-> "init",
                 tpc      |-> [i \in 1..Len(targets) |-> "idle"],
                 attempts |-> [i \in 1..Len(targets) |-> 0]]

\* notifyStatusChange up to its await: the early returns, then the callback
\* of every target runs up to its fetch (notifier.js 151-172, 124-149)
NtCall ==
  /\ nt.pc = "init"
  /\ nt' = IF NtProceeds(nt.enabled, nt.status, nt.targets)
             THEN [nt EXCEPT
                     !.pc = "running",
                     !.tpc = [i \in 1..Len(nt.targets) |->
                                IF Subscribed(nt.targets[i], nt.status)
                                  THEN "sending" ELSE "skipped"],
                     !.attempts = [i \in 1..Len(nt.targets) |->
                                     IF Subscribed(nt.targets[i], nt.status)
                                       THEN nt.attempts[i] + 1 ELSE nt.attempts[i]]]
             ELSE [nt EXCEPT !.pc = "returned"]
  /\ UNCHANGED <<now, db, timer, intervals, isTickRunning, tickPc, ticks, checks, notified,
                 notifierTimer, alive, ops, cs, seq, hist, pr, sel, cmp>>

\* the request to target i is answered with ok
NtDelivered(i) ==
  /\ nt.pc = "running" /\ nt.tpc[i] = "sending"
  /\ nt' = [nt EXCEPT !.tpc[i] = "delivered"]
  /\ UNCHANGED <<now, db, timer, intervals, isTickRunning, tickPc, ticks, checks, notified,
                 notifierTimer, alive, ops, cs, seq, hist, pr, sel, cmp>>

\* notifyTarget throws for target i: fetch rejects, or the answer is not ok
\* (notifier.js 16-21, 139-144)
NtFailed(i) ==
  /\ nt.pc = "running" /\ nt.tpc[i] = "sending"
  /\ nt' = IF Caught
             THEN [nt EXCEPT !.tpc[i] = "failed"]
             ELSE [nt EXCEPT !.tpc[i] = "failed", !.pc = "raised"]
  /\ UNCHANGED <<now, db, timer, intervals, isTickRunning, tickPc, ticks, checks, notified,
                 notifierTimer, alive, ops, cs, seq, hist, pr, sel, cmp>>

\* every callback has returned: Promise.all resolves, notifyStatusChange returns
NtReturn ==
  /\ nt.pc = "running"
  /\ \A i \in 1..Len(nt.targets) : nt.tpc[i] \in {"skipped", "delivered", "failed"}
  /\ nt' = [nt EXCEPT !.pc = "returned"]
  /\ UNCHANGED <<now, db, timer, intervals, isTickRunning, tickPc, ticks, checks, notified,
                 notifierTimer, alive, ops, cs, seq, hist, pr, sel, cmp>>

NextNotify ==
  \/ NtCall
  \/ \E i \in 1..Len(nt.targets) : NtDelivered(i)
  \/ \E i \in 1..Len(nt.targets) : NtFailed(i)
  \/ NtReturn

SpecNotify == InitNotify /\ [][NextNotify]_vars

(***************************************************************************)
(* SpecDeliver: one endpoint whose thresholds are 1, so that its first     *)
(* verdict is a transition, and the outcomes of the delivery that          *)
(* notifyStatusChange awaits: the sink answers, the delivery fails, or the *)
(* sink stays silent until the transport gives up                          *)
(***************************************************************************)
\* the sink answers 2xx (or no target is subscribed): notifyStatusChange returns
NotifyDelivered(c) ==
  /\ alive /\ c.pc = "notify"
  /\ Resolve(c)
  /\ UNCHANGED <<now, db, ticks, notified, ops, cs, seq, hist, nt, pr, sel, cmp>>

\* notifyTarget throws (connection refused, non-2xx, 6-22 and 124-149): the
\* catch of 171-179 logs it and notifyStatusChange returns
NotifyFailed(c) ==
  /\ alive /\ c.pc = "notify"
  /\ IF Caught THEN Resolve(c) /\ UNCHANGED hist ELSE Reject(c)
  /\ UNCHANGED <<now, db, ticks, notified, ops, cs, seq, nt, pr, sel, cmp>>

\* the sink accepts the request and sends nothing: fetch stays pending
NotifySilent(c) ==
  /\ alive /\ c.pc = "notify"
  /\ checks' = Moved(c, "silent")
  /\ UNCHANGED <<now, db, timer, intervals, isTickRunning, tickPc, ticks, notified,
                 notifierTimer, alive, ops, cs, seq, hist, nt, pr, sel, cmp>>

\* fetch is called without a signal (7 and 126): the timeout of the transport
\* rejects it, which the catch of 171-179 handles as any other failure
NotifyTransportTimeout(c) ==
  /\ alive /\ c.pc = "silent"
  /\ IF Caught THEN Resolve(c) /\ UNCHANGED hist ELSE Reject(c)
  /\ UNCHANGED <<now, db, ticks, notified, ops, cs, seq, nt, pr, sel, cmp>>

Delivery ==
  \/ \E c \in InFlight : NotifyDelivered(c)
  \/ \E c \in InFlight : NotifyFailed(c)
  \/ \E c \in InFlight : NotifySilent(c)
  \/ \E c \in InFlight : NotifyTransportTimeout(c)

InitDeliver ==
  /\ now = 0
  /\ db = [e \in EndpointIds |->
             IF e = 1 THEN NewRow(MinInterval, 1, 1, 0) ELSE AbsentRow]
  /\ timer = FALSE
  /\ intervals = 0
  /\ isTickRunning = FALSE
  /\ tickPc = "idle"
  /\ ticks = [calls |-> 0, skipped |-> 0]
  /\ checks = EmptyBag
  /\ notified = {}
  /\ notifierTimer = FALSE
  /\ alive = TRUE
  /\ ops = 0
  /\ cs = CsIdle
  /\ seq = SeqIdle
  /\ hist = HistOn
  /\ nt = NtIdle
  /\ pr = PrIdle
  /\ sel = SelIdle
  /\ cmp = CmpIdle

NextDeliver ==
  \/ TimerFires
  \/ startMonitor
  \/ TickQueryDone
  \/ TickQueryFails
  \/ \E c \in InFlight : \E checkPassed \in BOOLEAN : ProbeReturns(c, checkPassed)
  \/ \E c \in InFlight : ProbeRaises(c)
  \/ \E c \in InFlight : UpdateDone(c)
  \/ \E c \in InFlight : UpdateFails(c)
  \/ \E c \in InFlight : InsertDone(c)
  \/ \E c \in InFlight : InsertFails(c)
  \/ Delivery
  \/ AdvanceClock

\* every delivery ends: in an answer, in an error, or in the transport's timeout
SpecDeliver == InitDeliver /\ [][NextDeliver]_vars /\ WF_vars(Delivery)

(***************************************************************************)
(* SpecProbe: one probe executor (monitorService.ts 239-536) run once      *)
(* against a remote side that answers, fails, or stays silent at each step *)
(***************************************************************************)
\* A step of an executor: where it stands (before the try, in the try, in
\* the finally), whether it waits for the remote side, whether that wait is
\* raced against a timeout, whether it opens the resource the finally
\* releases ("no", "resolved": when it resolves, "called": once it is
\* called and does not fail), and whether an error of it is caught in place.
Step(name, zone, network, bounded, opens, swallowed) ==
  [name |-> name, zone |-> zone, network |-> network, bounded |-> bounded,
   opens |-> opens, swallowed |-> swallowed]

\* runHttpCheck 239-299: the timer of 245 aborts fetch and the reading of the
\* body, which is read when a JSON path is expected (266-267)
HttpSteps(variant) ==
  <<Step("fetch", "try", TRUE, TRUE, "no", FALSE)>>
    \o (IF variant = "json"
          THEN <<Step("response.text", "try", TRUE, TRUE, "no", FALSE)>>
          ELSE <<>>)

\* runMysqlCheck 301-348: createConnection with connectTimeout (313), query
\* with no timeout (318), conn.end().catch() with no timeout (345)
MysqlSteps ==
  <<Step("createConnection", "try", TRUE, TRUE, "resolved", FALSE),
    Step("query", "try", TRUE, FALSE, "no", FALSE),
    Step("end", "finally", TRUE, FALSE, "no", TRUE)>>

\* runRedisCheck 364-417: createClient before the try (366), connect and
\* sendCommand under withTimeout, quit().catch() with no timeout (412-414)
RedisSteps ==
  <<Step("createClient", "before", FALSE, FALSE, "no", FALSE),
    Step("connect", "try", TRUE, TRUE, "called", FALSE),
    Step("sendCommand", "try", TRUE, TRUE, "no", FALSE),
    Step("quit", "finally", TRUE, FALSE, "no", TRUE)>>

\* runNatsCheck 419-489: connect and the info request under withTimeout,
\* jetstreamManager() on the timeout of the library, close() awaited in the
\* finally with no timeout and no catch (485-487); the info steps are taken
\* for the commands jetstream.info and stream.info:NAME
NatsSteps(variant) ==
  <<Step("connect", "try", TRUE, TRUE, "resolved", FALSE)>>
    \o (IF variant = "info"
          THEN <<Step("jetstreamManager", "try", TRUE, TRUE, "no", FALSE),
                 Step("info", "try", TRUE, TRUE, "no", FALSE)>>
          ELSE <<>>)
    \o <<Step("close", "finally", TRUE, FALSE, "no", FALSE)>>

\* runTcpCheck 491-538: the connection under withTimeout
TcpSteps ==
  <<Step("connect", "try", TRUE, TRUE, "no", FALSE)>>

ProbeKinds == {"http", "mysql", "redis", "nats", "tcp"}

ProbeVariants(kind) ==
  CASE kind = "http" -> {"plain", "json"}
    [] kind = "nats" -> {"info", "other"}
    [] OTHER -> {"plain"}

ProbeSteps(kind, variant) ==
  CASE kind = "http" -> HttpSteps(variant)
    [] kind = "mysql" -> MysqlSteps
    [] kind = "redis" -> RedisSteps
    [] kind = "nats" -> NatsSteps(variant)
    [] OTHER -> TcpSteps

PrSteps == ProbeSteps(pr.kind, pr.variant)

\* What a step does to the connection or socket of the probe ("none" before
\* it exists, then "open" or "closed"), by its outcome; "same" leaves it.
\*   mysql: createConnection opens it and the library destroys it when the
\*     connection fails or connectTimeout passes; conn.end() closes it, and
\*     nothing else is tried when end() rejects (345);
\*   redis: connect() opens it, a refused connection closes it, the timeout
\*     of withTimeout leaves the client connecting; quit() closes it and
\*     destroy() does when quit() rejects (412-414);
\*   nats: connect opens it; when withTimeout rejects first nc stays null
\*     (430-440) while connectNats goes on, to a connection nobody closes or
\*     to its own timeout; close() closes it;
\*   tcp: the connect handler ends the socket (509-512), the error handler
\*     destroys it (513-516), the timeout of withTimeout does neither (520).
SocketEffect(kind, name) ==
  CASE kind = "mysql" /\ name = "createConnection" ->
         [ok |-> {"open"}, error |-> {"closed"}, timeout |-> {"closed"}]
    [] kind = "mysql" /\ name = "end" ->
         [ok |-> {"closed"}, error |-> {"open", "closed"}, timeout |-> {"same"}]
    [] kind = "redis" /\ name = "connect" ->
         [ok |-> {"open"}, error |-> {"closed"}, timeout |-> {"open"}]
    [] kind = "redis" /\ name = "quit" ->
         [ok |-> {"closed"}, error |-> {"closed"}, timeout |-> {"same"}]
    [] kind = "nats" /\ name = "connect" ->
         [ok |-> {"open"}, error |-> {"closed"}, timeout |-> {"open", "closed"}]
    [] kind = "nats" /\ name = "close" ->
         [ok |-> {"closed"}, error |-> {"open", "closed"}, timeout |-> {"same"}]
    [] kind = "tcp" /\ name = "connect" ->
         [ok |-> {"closed"}, error |-> {"closed"}, timeout |-> {"open"}]
    [] OTHER ->
         [ok |-> {"same"}, error |-> {"same"}, timeout |-> {"same"}]

\* the states the socket of the running probe can be in after its step
PrSockets(outcome) ==
  {IF s = "same" THEN pr.socket ELSE s :
     s \in SocketEffect(pr.kind, PrSteps[pr.pos].name)[outcome]}

\* the step the executor runs after step pos: the finally is skipped when
\* nothing was opened (if (conn), if (client.isOpen), if (nc))
PrAfter(pos, opened, thrown) ==
  LET later == {i \in (pos + 1)..Len(PrSteps) :
                  IF PrSteps[i].zone = "finally" THEN opened ELSE ~thrown}
  IN  IF later = {} THEN Len(PrSteps) + 1
      ELSE CHOOSE i \in later : \A j \in later : i <= j

InitProbe ==
  /\ now = 0
  /\ db = [e \in EndpointIds |-> AbsentRow]
  /\ timer = FALSE
  /\ intervals = 0
  /\ isTickRunning = FALSE
  /\ tickPc = "idle"
  /\ ticks = [calls |-> 0, skipped |-> 0]
  /\ checks = EmptyBag
  /\ notified = {}
  /\ notifierTimer = FALSE
  /\ alive = TRUE
  /\ ops = 0
  /\ cs = CsIdle
  /\ seq = SeqIdle
  /\ hist = HistOff
  /\ nt = NtIdle
  /\ sel = SelIdle
  /\ cmp = CmpIdle
  /\ \E kind \in ProbeKinds : \E variant \in ProbeVariants(kind) :
       pr = [kind    |-> kind,
             variant |-> variant,
             pc      |-> "running",
             pos     |-> 1,
             opened  |-> FALSE,
             socket  |-> "none",
             error   |-> "none",
             log     |-> <<>>,
             result  |-> [checkPassed |-> FALSE, errorMessage |-> FALSE]]

\* the step succeeds
PrStepOk ==
  /\ pr.pc = "running" /\ pr.pos <= Len(PrSteps)
  /\ LET step   == PrSteps[pr.pos]
         opened == pr.opened \/ step.opens # "no"
     IN  \E s \in PrSockets("ok") :
           pr' = [pr EXCEPT !.opened = opened,
                            !.socket = s,
                            !.pos = PrAfter(pr.pos, opened, pr.error # "none"),
                            !.log = Append(@, <<step.name, "ok">>)]
  /\ UNCHANGED <<now, db, timer, intervals, isTickRunning, tickPc, ticks, checks, notified,
                 notifierTimer, alive, ops, cs, seq, hist, nt, sel, cmp>>

\* an error is thrown at the step at position pos
PrThrown(step, why, opened) ==
  CASE step.zone = "before" ->
         [pr EXCEPT !.pc = "raised", !.log = Append(@, <<step.name, why>>)]
    [] step.zone = "try" ->
         [pr EXCEPT !.error = why,
                    !.opened = opened,
                    !.pos = PrAfter(pr.pos, opened, TRUE),
                    !.log = Append(@, <<step.name, why>>)]
    [] OTHER ->
         IF step.swallowed
           THEN [pr EXCEPT !.pos = PrAfter(pr.pos, opened, pr.error # "none"),
                           !.log = Append(@, <<step.name, why>>)]
           ELSE [pr EXCEPT !.pc = "raised", !.log = Append(@, <<step.name, why>>)]

\* the step throws: the library rejects the input, or the remote side fails
PrStepThrows ==
  /\ pr.pc = "running" /\ pr.pos <= Len(PrSteps)
  /\ \E s \in PrSockets("error") :
       pr' = [PrThrown(PrSteps[pr.pos], "error", pr.opened) EXCEPT !.socket = s]
  /\ UNCHANGED <<now, db, timer, intervals, isTickRunning, tickPc, ticks, checks, notified,
                 notifierTimer, alive, ops, cs, seq, hist, nt, sel, cmp>>

\* the remote side never responds: the timeout the step is raced against
\* throws its error, and a step with no timeout stays pending for ever
PrStepSilent ==
  /\ pr.pc = "running" /\ pr.pos <= Len(PrSteps)
  /\ PrSteps[pr.pos].network
  /\ LET step == PrSteps[pr.pos]
     IN  IF step.bounded
           THEN \E s \in PrSockets("timeout") :
                  pr' = [PrThrown(step, "timeout",
                                  pr.opened \/ step.opens = "called")
                           EXCEPT !.socket = s]
           ELSE pr' = [pr EXCEPT !.pc = "hung",
                                 !.log = Append(@, <<step.name, "silent">>)]
  /\ UNCHANGED <<now, db, timer, intervals, isTickRunning, tickPc, ticks, checks, notified,
                 notifierTimer, alive, ops, cs, seq, hist, nt, sel, cmp>>

\* the executor returns: the result of the catch, or the result of the
\* validation of what the remote side answered
PrReturn ==
  /\ pr.pc = "running" /\ pr.pos > Len(PrSteps)
  /\ \E ok \in BOOLEAN :
       pr' = [pr EXCEPT
                !.pc = "returned",
                !.result = IF pr.error # "none"
                             THEN [checkPassed |-> FALSE, errorMessage |-> TRUE]
                             ELSE [checkPassed |-> ok, errorMessage |-> ~ok]]
  /\ UNCHANGED <<now, db, timer, intervals, isTickRunning, tickPc, ticks, checks, notified,
                 notifierTimer, alive, ops, cs, seq, hist, nt, sel, cmp>>

NextProbe == PrStepOk \/ PrStepThrows \/ PrStepSilent \/ PrReturn

SpecProbe == InitProbe /\ [][NextProbe]_vars

(***************************************************************************)
(* SpecConfig: what an executor does with the configuration of its         *)
(* endpoint before and between its network calls (monitorService.ts        *)
(* 121-129, 239-259, 301-318, 364-384, 419-466, 491-517), applied once to  *)
(* a drawn configuration                                                   *)
(***************************************************************************)
\* connection.port as it is stored: missing, a text that is no number, a number
PortInputs ==
  {[is |-> "absent", n |-> 0], [is |-> "text", n |-> 0]}
    \cup {[is |-> "number", n |-> k] : k \in {0, 1, MaxPort, MaxPort + 1}}

\* connection_json as it is stored: NULL, a text that is not JSON, the JSON of
\* an array, the JSON of an object
ConnectionInputs ==
  {[form |-> f, port |-> [is |-> "absent", n |-> 0]] :
     f \in {"null", "malformed", "array"}}
    \cup {[form |-> "object", port |-> q] : q \in PortInputs}

\* line 11
ALLOWED_METHODS == {"GET", "POST", "PUT", "PATCH", "DELETE", "HEAD", "OPTIONS"}

MethodInputs == {"GET", "POST", "HEAD", "TRACE", "get"}

\* probe_command of a nats endpoint: its text up to and including the colon
\* of stream.info:, and the rest
CommandInputs ==
  {[head |-> "", rest |-> ""], [head |-> "jetstream.info", rest |-> ""],
   [head |-> "account.info", rest |-> ""]}
    \cup {[head |-> "stream.info:", rest |-> r] : r \in {"", " ", "ORDERS", "no such"}}

\* String.prototype.trim on the rests above
Trim(s) == IF s = " " THEN "" ELSE s

\* lines 121-129: anything that is not the JSON of an object becomes {}
parseConnection(connectionJson) ==
  IF connectionJson.form = "object"
    THEN [port |-> connectionJson.port]
    ELSE [port |-> [is |-> "absent", n |-> 0]]

\* Number(connection.port ?? fallback)
NumberOfPort(port, fallback) ==
  CASE port.is = "absent" -> [finite |-> TRUE, n |-> fallback]
    [] port.is = "text" -> [finite |-> FALSE, n |-> 0]
    [] OTHER -> [finite |-> TRUE, n |-> port.n]

\* line 497
InvalidPort(port) == ~port.finite \/ port.n < 1 \/ port.n > MaxPort

\* What the executor does up to its return or to the end of its network
\* calls: "network" for a call to the remote side, "rejected" for the return
\* of a failed result with the message of a local validation.
\*   http 240-255: a method outside ALLOWED_METHODS is replaced by GET;
\*   mysql 302-315, redis 365-384: the parsed connection, defaults filled in;
\*   nats 430-466: connect, then the command is read;
\*   tcp 492-507: the port is validated, then the socket is created.
ConfigTrace(kind, connectionJson, method, command) ==
  CASE kind = "http" -> <<"network">>
    [] kind = "tcp" ->
         IF InvalidPort(NumberOfPort(parseConnection(connectionJson).port, DefaultTcpPort))
           THEN <<"rejected">>
           ELSE <<"network">>
    [] kind = "nats" ->
         <<"network">> \o
           (IF command.head \in {"", "jetstream.info"} THEN <<"network">>
            ELSE IF command.head = "stream.info:"
              THEN (IF Trim(command.rest) = "" THEN <<"rejected">> ELSE <<"network">>)
            ELSE <<>>)
    [] OTHER -> <<"network">>

\* line 240
HttpMethodUsed(method) == IF method \in ALLOWED_METHODS THEN method ELSE "GET"

InitConfig ==
  /\ now = 0
  /\ db = [e \in EndpointIds |-> AbsentRow]
  /\ timer = FALSE
  /\ intervals = 0
  /\ isTickRunning = FALSE
  /\ tickPc = "idle"
  /\ ticks = [calls |-> 0, skipped |-> 0]
  /\ checks = EmptyBag
  /\ notified = {}
  /\ notifierTimer = FALSE
  /\ alive = TRUE
  /\ ops = 0
  /\ cs = CsIdle
  /\ seq = SeqIdle
  /\ hist = HistOff
  /\ nt = NtIdle
  /\ sel = SelIdle
  /\ cmp = CmpIdle
  /\ \E kind \in ProbeKinds :
     \E connectionJson \in ConnectionInputs :
     \E method \in MethodInputs :
     \E command \in CommandInputs :
       \* the routes store GET and no command for the kinds that use neither
       /\ kind = "http" => connectionJson.form = "null"
       /\ kind # "http" => method = "GET"
       /\ kind # "nats" => command.head = ""
       /\ pr = [pc |-> "drawn", kind |-> kind, connection_json |-> connectionJson,
                method |-> method, probe_command |-> command,
                trace |-> <<>>, methodUsed |-> ""]

ConfigApply ==
  /\ pr.pc = "drawn"
  /\ pr' = [pr EXCEPT
              !.pc = "applied",
              !.trace = ConfigTrace(pr.kind, pr.connection_json, pr.method,
                                    pr.probe_command),
              !.methodUsed = IF pr.kind = "http" THEN HttpMethodUsed(pr.method)
                             ELSE ""]
  /\ UNCHANGED <<now, db, timer, intervals, isTickRunning, tickPc, ticks, checks, notified,
                 notifierTimer, alive, ops, cs, seq, hist, nt, sel, cmp>>

NextConfig == ConfigApply

SpecConfig == InitConfig /\ [][NextConfig]_vars

(***************************************************************************)
(* SpecCS: computeStatus applied once to an endpoint drawn from the rows   *)
(* the table can hold                                                      *)
(***************************************************************************)
CsStatuses == Statuses
CsCounts == 0..MaxCount
\* down_retries and up_retries are INT columns: the routes store values >= 1,
\* the table itself takes any integer
CsRetries == (0 - 1)..MaxCount
\* the values Number() can be given: null, a text that is no number, a number
JsRetries ==
  {[is |-> "null", n |-> 0], [is |-> "text", n |-> 0]}
    \cup {[is |-> "number", n |-> k] : k \in CsRetries}

InitCS ==
  /\ now = 0
  /\ db = [e \in EndpointIds |-> AbsentRow]
  /\ timer = FALSE
  /\ intervals = 0
  /\ isTickRunning = FALSE
  /\ tickPc = "idle"
  /\ ticks = [calls |-> 0, skipped |-> 0]
  /\ checks = EmptyBag
  /\ notified = {}
  /\ notifierTimer = FALSE
  /\ alive = TRUE
  /\ ops = 0
  /\ seq = SeqIdle
  /\ hist = HistOff
  /\ nt = NtIdle
  /\ pr = PrIdle
  /\ sel = SelIdle
  /\ cmp = CmpIdle
  /\ \E st \in CsStatuses : \E f \in CsCounts : \E su \in CsCounts :
     \E d \in CsRetries : \E u \in CsRetries : \E p \in BOOLEAN :
     \E v \in JsRetries :
       cs = [endpoint    |-> [NewRow(MinInterval, d, u, 0) EXCEPT
                                !.status = st,
                                !.consecutive_failures = f,
                                !.consecutive_successes = su],
             checkPassed |-> p,
             done        |-> FALSE,
             result      |-> NoComputation,
             js          |-> v,
             threshold   |-> 0]

CsApply ==
  /\ ~cs.done
  /\ cs' = [cs EXCEPT !.done = TRUE,
                      !.result = computeStatus(cs.endpoint, cs.checkPassed),
                      !.threshold = ToRetries(cs.js)]
  /\ UNCHANGED <<now, db, timer, intervals, isTickRunning, tickPc, ticks, checks, notified,
                 notifierTimer, alive, ops, seq, hist, nt, pr, sel, cmp>>

NextCS == CsApply

SpecCS == InitCS /\ [][NextCS]_vars

(***************************************************************************)
(* SpecSeq: one endpoint, created (pending, 0, 0) with thresholds that are *)
(* never edited, checked by runCheck executions that do not overlap        *)
(***************************************************************************)
SeqRetries == 1..MaxCount

InitSeq ==
  /\ now = 0
  /\ \E d \in SeqRetries : \E u \in SeqRetries :
       db = [e \in EndpointIds |->
               IF e = 1 THEN NewRow(MinInterval, d, u, 0) ELSE AbsentRow]
  /\ timer = FALSE
  /\ intervals = 0
  /\ isTickRunning = FALSE
  /\ tickPc = "idle"
  /\ ticks = [calls |-> 0, skipped |-> 0]
  /\ checks = EmptyBag
  /\ notified = {}
  /\ notifierTimer = FALSE
  /\ alive = TRUE
  /\ ops = 0
  /\ cs = CsIdle
  /\ seq = SeqIdle
  /\ hist = HistOff
  /\ nt = NtIdle
  /\ pr = PrIdle
  /\ sel = SelIdle
  /\ cmp = CmpIdle

\* one whole runCheck on endpoint 1: the row is read, the probe returns
\* checkPassed, lines 561-588 persist the outcome
SeqRunCheck(checkPassed) ==
  /\ Len(seq.verdicts) < MaxSeqLen
  /\ LET c == [StartedCheck(1, "manual") EXCEPT
                 !.next = computeStatus(db[1], checkPassed)]
     IN  /\ db' = [db EXCEPT ![1] = UpdatedRow(@, c, now)]
         /\ seq' = [verdicts  |-> Append(seq.verdicts, checkPassed),
                    persisted |-> Append(seq.persisted,
                                         <<c.next.status, c.next.failures, c.next.successes>>)]
  /\ hist' = Recorded([hist EXCEPT !.verdicts = @ + 1, !.runs = @ + 1,
                                  !.events = @ + 1])
  /\ UNCHANGED <<now, timer, intervals, isTickRunning, tickPc, ticks, checks, notified,
                 notifierTimer, alive, ops, cs, nt, pr, sel, cmp>>

NextSeq == \E checkPassed \in BOOLEAN : SeqRunCheck(checkPassed)

SpecSeq == InitSeq /\ [][NextSeq]_vars

(***************************************************************************)
(* SpecCompare: validateExpectedProbeValue applied to drawn values.  A     *)
(* JavaScript value is a record: type, and the number n, the string s or   *)
(* the entries (key and number, in insertion order) that the type uses.    *)
(* The stored expected_probe_value is a text: absent (NULL), or a body     *)
(* with or without surrounding white space; the body is empty, digits, a   *)
(* quoted string, the word null, braces or brackets around entries, or     *)
(* text that is not JSON ("bare").  The model keeps ok and errorMessage of *)
(* the result.                                                             *)
(***************************************************************************)
ValNull == [type |-> "null", n |-> 0, s |-> "", entries |-> <<>>]

ValNumber(k) == [type |-> "number", n |-> k, s |-> "", entries |-> <<>>]

ValString(t) == [type |-> "string", n |-> 0, s |-> t, entries |-> <<>>]

ValObject(es) == [type |-> "object", n |-> 0, s |-> "", entries |-> es]

ValArray(es) == [type |-> "array", n |-> 0, s |-> "", entries |-> es]

Entry(key, k) == [k |-> key, n |-> k]

TextAbsent ==
  [absent |-> TRUE, pad |-> FALSE, form |-> "empty", n |-> 0, s |-> "", entries |-> <<>>]

Text(form, pad, k, t, es) ==
  [absent |-> FALSE, pad |-> pad, form |-> form, n |-> k, s |-> t, entries |-> es]

\* the values a probe hands to the comparator
ActualInputs ==
  { ValNull, ValNumber(5), ValNumber(1), ValString("5"), ValString("PONG"),
    ValString("pong"), ValString("{a:1}"), ValObject(<<Entry("a", 1)>>),
    ValObject(<<Entry("a", 1), Entry("b", 2)>>),
    ValObject(<<Entry("b", 2), Entry("a", 1)>>),
    ValArray(<<Entry("", 1)>>), ValArray(<<>>), ValObject(<<>>) }

\* the texts monitor_endpoints.expected_probe_value can hold
ExpectedInputs ==
  {TextAbsent} \cup
  { Text("empty", pad, 0, "", <<>>) : pad \in BOOLEAN } \cup
  { Text("digits", pad, 5, "", <<>>) : pad \in BOOLEAN } \cup
  { Text("quoted", FALSE, 0, t, <<>>) : t \in {"pong", "PONG", "5"} } \cup
  { Text("bare", pad, 0, "PONG", <<>>) : pad \in BOOLEAN } \cup
  { Text("bare", FALSE, 0, "{a:1}", <<>>), Text("null", FALSE, 0, "", <<>>),
    Text("braces", FALSE, 0, "", <<Entry("a", 1)>>),
    Text("braces", TRUE, 0, "", <<Entry("b", 2), Entry("a", 1)>>),
    Text("brackets", FALSE, 0, "", <<Entry("", 1)>>),
    Text("brackets", FALSE, 0, "", <<>>) }

\* String.prototype.trim
StringTrim(text) == [text EXCEPT !.pad = FALSE]

\* JSON.parse: the value of a JSON text, or a SyntaxError
JsonParse(text) ==
  CASE text.form = "digits"   -> [threw |-> FALSE, value |-> ValNumber(text.n)]
    [] text.form = "quoted"   -> [threw |-> FALSE, value |-> ValString(text.s)]
    [] text.form = "null"     -> [threw |-> FALSE, value |-> ValNull]
    [] text.form = "braces"   -> [threw |-> FALSE, value |-> ValObject(text.entries)]
    [] text.form = "brackets" -> [threw |-> FALSE, value |-> ValArray(text.entries)]
    [] OTHER                  -> [threw |-> TRUE, value |-> ValNull]

\* JSON.stringify of an object or an array: the bracket and the entries in
\* insertion order
JsonStringify(value) ==
  [open    |-> IF value.type = "array" THEN "[" ELSE "{",
   entries |-> value.entries]

\* typeof value === 'object' && value !== null
TypeofObject(value) == value.type \in {"object", "array"}

\* left === right: same type and same primitive value; an object is only
\* identical to itself, and the two operands are never the same object
StrictEquals(left, right) ==
  /\ left.type = right.type
  /\ CASE left.type = "number" -> left.n = right.n
       [] left.type = "string" -> left.s = right.s
       [] left.type = "null"   -> TRUE
       [] OTHER                -> FALSE

\* monitorService.ts 138-143
deepEqual(left, right) ==
  IF TypeofObject(left) /\ TypeofObject(right)
  THEN JsonStringify(left) = JsonStringify(right)
  ELSE StrictEquals(left, right)

parseExpectedValueLiteral(rawValue) ==
  IF rawValue.absent THEN ValNull ELSE ValString(StringTrim(rawValue).s)

\* monitorService.ts 145-155
parseExpectedValue(rawValue) ==
  IF rawValue.absent THEN ValNull
  ELSE LET trimmed == StringTrim(rawValue)
       IN  IF trimmed.form = "empty" THEN ValString("")
           ELSE IF JsonParse(trimmed).threw THEN ValString(trimmed.s)
           ELSE JsonParse(trimmed).value

\* monitorService.ts 221-237
validateExpectedProbeValue(actual, expectedRaw) ==
  IF expectedRaw.absent \/ StringTrim(expectedRaw).form = "empty"
  THEN [ok |-> TRUE, errorMessage |-> "none"]
  ELSE LET expected == parseExpectedValue(expectedRaw)
           ok == deepEqual(actual, expected)
       IN  [ok |-> ok,
            errorMessage |-> IF ok THEN "none" ELSE "Probe value mismatch"]

InitCompare ==
  /\ now = 0
  /\ db = [e \in EndpointIds |-> AbsentRow]
  /\ timer = FALSE
  /\ intervals = 0
  /\ isTickRunning = FALSE
  /\ tickPc = "idle"
  /\ ticks = [calls |-> 0, skipped |-> 0]
  /\ checks = EmptyBag
  /\ notified = {}
  /\ notifierTimer = FALSE
  /\ alive = TRUE
  /\ ops = 0
  /\ cs = CsIdle
  /\ seq = SeqIdle
  /\ hist = HistOff
  /\ nt = NtIdle
  /\ pr = PrIdle
  /\ sel = SelIdle
  /\ \E actual \in ActualInputs : \E expectedRaw \in ExpectedInputs :
       cmp = [actual      |-> actual,
              expectedRaw |-> expectedRaw,
              done        |-> FALSE,
              result      |-> [ok |-> FALSE, errorMessage |-> "none"]]

CmpApply ==
  /\ ~cmp.done
  /\ cmp' = [cmp EXCEPT !.done = TRUE,
                        !.result = validateExpectedProbeValue(cmp.actual, cmp.expectedRaw)]
  /\ UNCHANGED <<now, db, timer, intervals, isTickRunning, tickPc, ticks, checks, notified,
                 notifierTimer, alive, ops, cs, seq, hist, nt, pr, sel>>

NextCompare == CmpApply

SpecCompare == InitCompare /\ [][NextCompare]_vars

(***************************************************************************)
(* SpecFleet: the scheduler running without end over a fleet with more     *)
(* endpoints than the LIMIT of the query.  The query and the UPDATE read   *)
(* next_check_at only against NOW() and against each other, so the rows    *)
(* hold next_check_at - NOW(), and the elapsed ones hold their rank among  *)
(* the elapsed (-MinInterval the latest, -2 * MinInterval the one before). *)
(* The verdicts are those that keep a counter within MaxCount, and the     *)
(* database answers every statement.                                       *)
(***************************************************************************)
\* the LIMIT of lines 649-660, scaled to the fleet: one row less than the table
FleetLimit == Cardinality(EndpointIds) - 1

\* setInterval fires (671): tick() up to its first await
FleetTimerFires ==
  /\ alive /\ intervals > 0
  /\ IF tickSkips
       THEN UNCHANGED <<isTickRunning, tickPc>>
       ELSE isTickRunning' = TRUE /\ tickPc' = "query"
  /\ UNCHANGED <<now, db, timer, intervals, ticks, checks, notified, notifierTimer, alive,
                 ops, cs, seq, hist, nt, pr, sel, cmp>>

\* the query answers with at most FleetLimit rows; line 662 starts their checks
FleetQueryDone ==
  /\ alive /\ tickPc = "query"
  /\ \E q \in QueryResults(db, now, FleetLimit) :
       LET B == {q[i] : i \in 1..Len(q)}
       IN  /\ checks' = checks (+) SetToBag({StartedCheck(e, "tick") : e \in B})
           /\ IF B = {}
                THEN tickEnds(FALSE)
                ELSE tickPc' = "await" /\ UNCHANGED isTickRunning
  /\ UNCHANGED <<now, db, timer, intervals, ticks, notified, notifierTimer, alive, ops,
                 cs, seq, hist, nt, pr, sel, cmp>>

\* the probe returns a verdict
FleetProbeReturns(c) ==
  \E checkPassed \in BOOLEAN :
    /\ computeStatus(c.endpoint, checkPassed).failures <= MaxCount
    /\ computeStatus(c.endpoint, checkPassed).successes <= MaxCount
    /\ ProbeReturns(c, checkPassed)

\* a runCheck execution moves on: to its next step, or to the rejection of
\* a probe that throws; the statements sent to the database succeed
FleetCheckSteps ==
  \/ \E c \in InFlight : FleetProbeReturns(c)
  \/ \E c \in InFlight : ProbeRaises(c)
  \/ \E c \in InFlight : UpdateDone(c)
  \/ \E c \in InFlight : InsertDone(c)
  \/ \E c \in InFlight : NotifyDone(c)

\* next_check_at - NOW() of row e once NOW() has advanced by MinInterval
Later(rows, e) == rows[e].next_check_at - MinInterval

\* the same, the elapsed times replaced by their ranks
Ranked(rows, e) ==
  IF Later(rows, e) >= 0
    THEN Later(rows, e)
    ELSE 0 - MinInterval *
           Cardinality({v \in {Later(rows, d) : d \in DOMAIN rows} :
                          v < 0 /\ v >= Later(rows, e)})

\* NOW() advances by MinInterval
FleetClock ==
  /\ alive
  /\ db' = [e \in EndpointIds |-> [db[e] EXCEPT !.next_check_at = Ranked(db, e)]]
  /\ UNCHANGED <<now, timer, intervals, isTickRunning, tickPc, ticks, checks, notified,
                 notifierTimer, alive, ops, cs, seq, hist, nt, pr, sel, cmp>>

\* the monitor started, every endpoint created and not yet checked
InitFleet ==
  /\ now = 0
  /\ \E due \in [EndpointIds -> {0 - MinInterval, 0, MinInterval}] :
       db = [e \in EndpointIds |-> NewRow(MinInterval, 2, 2, due[e])]
  /\ timer = TRUE
  /\ intervals = 1
  /\ isTickRunning = FALSE
  /\ tickPc = "idle"
  /\ ticks = [calls |-> 0, skipped |-> 0]
  /\ checks = EmptyBag
  /\ notified = {}
  /\ notifierTimer = FALSE
  /\ alive = TRUE
  /\ ops = 0
  /\ cs = CsIdle
  /\ seq = SeqIdle
  /\ hist = HistOff
  /\ nt = NtIdle
  /\ pr = PrIdle
  /\ sel = SelIdle
  /\ cmp = CmpIdle

NextFleet ==
  \/ FleetTimerFires
  \/ FleetQueryDone
  \/ FleetCheckSteps
  \/ FleetClock

\* the timer keeps firing, the database answers, every check terminates (in
\* a return or in a rejection), and time passes
SpecFleet ==
  /\ InitFleet
  /\ [][NextFleet]_vars
  /\ WF_vars(FleetTimerFires)
  /\ WF_vars(FleetQueryDone)
  /\ WF_vars(FleetCheckSteps)
  /\ WF_vars(FleetClock)

(***************************************************************************)
(* Properties                                                              *)
(***************************************************************************)

\* C1: a tick() invoked, by the interval timer or by startMonitor, while an
\* earlier tick() has not finished returns at once: it issues no query, starts
\* no check and changes nothing; and a tick body begins only in the step of
\* its own invocation, so a skipped invocation is not run later.
C1_TickSkippedWhileRunning ==
  [][ /\ (ticks'.calls # ticks.calls /\ tickPc # "idle")
         => /\ ticks'.skipped = ticks.skipped + 1
            /\ UNCHANGED <<tickPc, isTickRunning, checks, db, notified, now>>
      /\ (tickPc' = "query" /\ tickPc # "query")
         => (ticks'.calls = ticks.calls + 1 /\ tickPc = "idle")
    ]_vars

\* an invocation has been skipped and the tick it met is still waiting for its checks
C1_Witness ==
  /\ ticks.skipped >= 1
  /\ tickPc = "await"
  /\ \E c \in InFlight : c.awaited

\* no endpoint is being checked by two checks that ticks have started
NoEndpointTickCheckedTwice ==
  \A c \in InFlight : \A d \in InFlight :
    (c.origin = "tick" /\ d.origin = "tick" /\ c.id = d.id)
      => (c = d /\ CopiesIn(c, checks) = 1)

\* C2: ticks are strictly serialized: when a tick selects its batch no check
\* that an earlier tick started is still executing, whatever became of the
\* earlier tick's checks; hence no endpoint is ever being checked by two
\* tick-initiated checks at the same time.
C2_TicksSerialized ==
  [][ /\ (tickPc = "query" /\ tickPc' = "await")
         => \A c \in InFlight : c.origin # "tick"
      /\ NoEndpointTickCheckedTwice'
    ]_vars

\* C3: notifyStatusChange is invoked only for an executed check whose new
\* status differs from the status the check read and is up or down: every
\* step that adds an event to the invocations is the step in which such a
\* check, its check run inserted, dispatches that event.
C3_NotifiedOnlyOnStatusChange ==
  [][ notified' # notified
        => \E c \in InFlight :
             /\ c.pc = "insert"
             /\ c.endpoint.status # c.next.status
             /\ c.next.status \in {"up", "down"}
             /\ checks' = Moved(c, "notify")
             /\ notified' = notified \cup {[endpointId     |-> c.id,
                                            previousStatus |-> c.endpoint.status,
                                            currentStatus  |-> c.next.status]}
    ]_vars

\* the number of entries equal to b that end the first i entries of v
RECURSIVE Streak(_, _, _)
Streak(v, i, b) ==
  IF i = 0 \/ v[i] # b THEN 0 ELSE 1 + Streak(v, i - 1, b)

SeqStatus(i) == IF i = 0 THEN "pending" ELSE seq.persisted[i][1]

ExampleVerdicts == <<FALSE, FALSE, FALSE, TRUE, TRUE>>
ExamplePersisted ==
  << <<"pending", 1, 0>>, <<"pending", 2, 0>>, <<"down", 3, 0>>,
     <<"down", 0, 1>>, <<"up", 0, 2>> >>

\* C4: for one endpoint with fixed thresholds checked by runCheck executions
\* that do not overlap, the persisted status changes to down exactly on the
\* check that is the downRetries-th consecutive failure, and from down to up
\* exactly on the check that is the upRetries-th consecutive pass; with
\* downRetries = 3, upRetries = 2 the verdicts fail, fail, fail, pass, pass
\* persist (pending,1,0), (pending,2,0), (down,3,0), (down,0,1), (up,0,2).
C4_ThresholdsGateTransitions ==
  /\ \A i \in 1..Len(seq.persisted) :
       /\ (SeqStatus(i) = "down" /\ SeqStatus(i - 1) # "down")
            <=> (SeqStatus(i - 1) # "down"
                 /\ Streak(seq.verdicts, i, FALSE) = db[1].down_retries)
       /\ (SeqStatus(i) = "up" /\ SeqStatus(i - 1) = "down")
            <=> (SeqStatus(i - 1) = "down"
                 /\ Streak(seq.verdicts, i, TRUE) = db[1].up_retries)
  /\ (/\ db[1].down_retries = 3
      /\ db[1].up_retries = 2
      /\ seq.verdicts = SubSeq(ExampleVerdicts, 1, Min(Len(seq.verdicts), 5)))
       => seq.persisted = SubSeq(ExamplePersisted, 1, Len(seq.verdicts))

\* the five checks of the example have been persisted
C4_Witness ==
  /\ db[1].down_retries = 3
  /\ db[1].up_retries = 2
  /\ seq.verdicts = ExampleVerdicts
  /\ seq.persisted = ExamplePersisted

\* C5: on a passing verdict with current status pending or up computeStatus
\* returns up, whatever upRetries and the counters are; (pending,0,0) and one
\* pass give (up,0,1).
C5_PassFromPendingOrUp ==
  (cs.done /\ cs.checkPassed /\ cs.endpoint.status \in {"pending", "up"})
    => /\ cs.result.status = "up"
       /\ (/\ cs.endpoint.status = "pending"
           /\ cs.endpoint.consecutive_failures = 0
           /\ cs.endpoint.consecutive_successes = 0)
            => cs.result = [status |-> "up", failures |-> 0, successes |-> 1]

\* one pass from (pending,0,0) with upRetries above 1 has been computed
C5_Witness ==
  /\ cs.done /\ cs.checkPassed
  /\ cs.endpoint.status = "pending"
  /\ cs.endpoint.consecutive_failures = 0
  /\ cs.endpoint.consecutive_successes = 0
  /\ cs.endpoint.up_retries = MaxCount
  /\ cs.result.status = "up"

\* C6: on a passing verdict with current status down computeStatus returns up
\* if and only if the incremented consecutiveSuccesses is at least upRetries,
\* and otherwise returns down.
C6_PassFromDown ==
  (cs.done /\ cs.checkPassed /\ cs.endpoint.status = "down")
    => /\ cs.result.status = "up"
            <=> cs.endpoint.consecutive_successes + 1 >= cs.endpoint.up_retries
       /\ cs.result.status \in {"up", "down"}

\* a pass from down that reaches the recovery threshold exactly
C6_Witness ==
  /\ cs.done /\ cs.checkPassed
  /\ cs.endpoint.status = "down"
  /\ cs.endpoint.up_retries >= 2
  /\ cs.endpoint.consecutive_successes + 1 = cs.endpoint.up_retries
  /\ cs.result.status = "up"

\* C7: on a failing verdict computeStatus returns down if and only if the
\* incremented consecutiveFailures is at least downRetries or the current
\* status is already down; otherwise the status is unchanged.
C7_FailStatus ==
  (cs.done /\ ~cs.checkPassed)
    => /\ cs.result.status = "down"
            <=> (\/ cs.endpoint.consecutive_failures + 1 >= cs.endpoint.down_retries
                 \/ cs.endpoint.status = "down")
       /\ cs.result.status # "down" => cs.result.status = cs.endpoint.status

\* a failure from up that reaches the failure threshold exactly
C7_Witness ==
  /\ cs.done /\ ~cs.checkPassed
  /\ cs.endpoint.status = "up"
  /\ cs.endpoint.down_retries >= 2
  /\ cs.endpoint.consecutive_failures + 1 = cs.endpoint.down_retries
  /\ cs.result.status = "down"

\* C8: on pass consecutiveSuccesses is the prior value plus 1 and
\* consecutiveFailures is 0; on fail consecutiveFailures is the prior value
\* plus 1 and consecutiveSuccesses is 0; for every status and threshold.
C8_Counters ==
  cs.done
    => IF cs.checkPassed
         THEN /\ cs.result.successes = cs.endpoint.consecutive_successes + 1
              /\ cs.result.failures = 0
         ELSE /\ cs.result.failures = cs.endpoint.consecutive_failures + 1
              /\ cs.result.successes = 0

\* a pass computed from a row whose two counters were both above 0
C8_Witness ==
  /\ cs.done /\ cs.checkPassed
  /\ cs.endpoint.consecutive_failures >= 1
  /\ cs.endpoint.consecutive_successes >= 1
  /\ cs.result.failures = 0
  /\ cs.result.successes = cs.endpoint.consecutive_successes + 1

StatusTransitions ==
  {<<"pending", "up">>, <<"pending", "down">>, <<"up", "down">>, <<"down", "up">>}

\* C9 as claimed: the only changes of a persisted status are pending to up,
\* pending to down, up to down and down to up; once an endpoint's status has
\* left pending nothing sets it back to pending.
C9_PersistedTransitions ==
  [][ \A e \in EndpointIds :
        (db[e].present /\ db'[e].present /\ db'[e].status # db[e].status)
          => <<db[e].status, db'[e].status>> \in StatusTransitions
    ]_vars

\* C9 as amended: relative to the status a check read when it started, the
\* status it persists is that status or one of pending to up, pending to
\* down, up to down, down to up; no check that read up or down persists
\* pending.
C9_TransitionsFromStatusRead ==
  [][ \A c \in InFlight :
        (c.pc = "update" /\ checks' = Moved(c, "insert") /\ db[c.id].present)
          => /\ db'[c.id].status = c.next.status
             /\ \/ c.next.status = c.endpoint.status
                \/ <<c.endpoint.status, c.next.status>> \in StatusTransitions
    ]_vars

\* a check that read pending is about to persist pending over a status that
\* an overlapping check has meanwhile set to up
C9_Witness ==
  \E c \in InFlight :
    /\ c.pc = "update"
    /\ c.endpoint.status = "pending"
    /\ c.next.status = "pending"
    /\ db[c.id].present
    /\ db[c.id].status = "up"

\* C10: whatever configuration edits interleave, after an executed check the
\* endpoint's persisted nextCheckAt is the time of the check plus exactly
\* that endpoint's interval_seconds.
C10_NextCheckAtIsNowPlusInterval ==
  [][ \A c \in InFlight :
        (c.pc = "update" /\ checks' = Moved(c, "insert") /\ db[c.id].present)
          => db'[c.id].next_check_at = now + db'[c.id].interval_seconds
    ]_vars

\* C11: pausing an endpoint and resuming an endpoint, individually or through
\* its group, each set its nextCheckAt to the current time plus exactly the
\* endpoint's interval seconds.
C11_PauseResumeAdvanceByInterval ==
  [][ \A e \in EndpointIds :
        (db[e].present /\ db'[e].present /\ db'[e].is_paused # db[e].is_paused)
          => db'[e].next_check_at = now + db'[e].interval_seconds
    ]_vars

\* C12: a manual check-now on an endpoint whose pause flag is set is refused
\* before any probe executes: no check is started, no endpoint field is
\* written, no check run is appended, no event is emitted and no notification
\* is dispatched.
C12_PausedRefusesManualCheck ==
  [][ \A e \in EndpointIds :
        (hist'.manual[e] # hist.manual[e] /\ db[e].present /\ db[e].is_paused)
          => /\ UNCHANGED <<checks, db, notified>>
             /\ hist'.verdicts = hist.verdicts
             /\ hist'.runs = hist.runs
             /\ hist'.events = hist.events
    ]_vars

\* a manual check-now has been asked for the paused endpoint 2
C12_Witness ==
  /\ hist.manual[2] = 1
  /\ db[2].present /\ db[2].is_paused
  /\ db[2].next_check_at = 0
  /\ checks = EmptyBag
  /\ hist.runs = <<>>

\* the rows of the drawn table that are not paused and are due at sel.at
SelEligible ==
  {e \in FleetIds :
     ~sel.rows[e].is_paused /\ sel.rows[e].next_check_at <= sel.at}

\* C13: the batch a tick executes consists only of endpoints that are not
\* paused and whose nextCheckAt is at or before the selection time, contains
\* at most the limit of the query, contains each endpoint at most once, and,
\* when more endpoints than the limit are due, consists of as many as the
\* limit, those with the smallest nextCheckAt.
C13_BatchSelection ==
  sel.done
    => /\ \A i \in 1..Len(sel.batch) : sel.batch[i] \in SelEligible
       /\ Len(sel.batch) <= sel.limit
       /\ \A i \in 1..Len(sel.batch) : \A j \in 1..Len(sel.batch) :
            i # j => sel.batch[i] # sel.batch[j]
       /\ Cardinality(SelEligible) > sel.limit
            => /\ Len(sel.batch) = sel.limit
               /\ \A i \in 1..Len(sel.batch) :
                    \A e \in SelEligible \ {sel.batch[j] : j \in 1..Len(sel.batch)} :
                      sel.rows[sel.batch[i]].next_check_at <= sel.rows[e].next_check_at

\* limit 1, the row due first is paused, and of the two others the one due
\* earlier was selected
C13_Witness ==
  /\ sel.done
  /\ sel.limit = 1
  /\ sel.rows[1].is_paused /\ sel.rows[1].next_check_at = 0
  /\ ~sel.rows[2].is_paused /\ sel.rows[2].next_check_at = 2 * MinInterval
  /\ ~sel.rows[3].is_paused /\ sel.rows[3].next_check_at = MinInterval
  /\ sel.at = 2 * MinInterval
  /\ sel.batch = <<3>>

\* C14: a tick that finds no due, non-paused endpoint is a no-op: it writes
\* nothing to any endpoint, starts no check, appends no check run, emits no
\* event, dispatches no notification, and leaves the scheduler ready for the
\* next tick.
C14_EmptyTickIsNoOp ==
  [][ (tickPc = "query" /\ Due = {} /\ tickPc' # "query" /\ alive')
        => /\ tickPc' = "idle"
           /\ ~isTickRunning'
           /\ UNCHANGED <<db, checks, notified, timer>>
           /\ hist'.verdicts = hist.verdicts
           /\ hist'.runs = hist.runs
           /\ hist'.events = hist.events
    ]_vars

\* the first tick has checked endpoint 1, and the second tick, not skipped,
\* has found nothing due and has returned
C14_Witness ==
  /\ ticks = [calls |-> 2, skipped |-> 0]
  /\ hist.events = 1
  /\ now = 0
  /\ Due = {}
  /\ tickPc = "idle" /\ ~isTickRunning /\ timer
  /\ checks = EmptyBag

\* the checks in flight whose probe has returned and that have not emitted yet
BeforeEmit ==
  [c \in {d \in InFlight : d.pc \in {"update", "insert"}} |-> CopiesIn(c, checks)]

\* C15: every executed check emits exactly one monitor:checked event, whether
\* or not the status changed, and no monitor:checked event is emitted without
\* an executed check: in the running process the probes that have returned
\* are the events emitted and the checks that are still on their way to emit.
C15_OneEventPerExecutedCheck ==
  alive => hist.verdicts = hist.events + BagCardinality(BeforeEmit)

NtTargetIds == 1..Len(nt.targets)

\* C16: in notifyStatusChange delivery is attempted to every subscribed
\* target even when delivery to another target fails, and a failure never
\* raises out of notifyStatusChange: the call starts one attempt for every
\* subscribed target, a failing delivery changes nothing about the other
\* targets and leaves the call running, and the call ends only by returning.
C16_DeliveryFailuresIsolated ==
  [][ /\ nt'.pc # "raised"
      /\ (nt.pc = "init" /\ nt'.pc = "running")
           => \A i \in NtTargetIds :
                Subscribed(nt.targets[i], nt.status)
                  => (nt'.attempts[i] = 1 /\ nt'.tpc[i] = "sending")
      /\ \A i \in NtTargetIds :
           (nt.pc = "running" /\ nt.tpc[i] = "sending" /\ nt'.tpc[i] = "failed")
             => /\ nt'.pc = "running"
                /\ nt'.attempts = nt.attempts
                /\ \A j \in NtTargetIds : j # i => nt'.tpc[j] = nt.tpc[j]
      /\ (nt.pc = "running" /\ nt'.pc # "running")
           => /\ nt'.pc = "returned"
              /\ \A i \in NtTargetIds : nt.tpc[i] \in {"skipped", "delivered", "failed"}
    ]_vars

\* of two targets the first has failed, the second was delivered, and
\* notifyStatusChange has returned
C16_Witness ==
  /\ nt.pc = "returned"
  /\ Len(nt.targets) = 2
  /\ nt.tpc = <<"failed", "delivered">>
  /\ nt.attempts = <<1, 1>>

\* C17: notifyStatusChange attempts no delivery to any target when
\* notifications are globally disabled, when the event's current status is
\* neither up nor down, or when the configured target list is empty.
C17_NoDeliveryWhenNothingToNotify ==
  (/\ nt.pc # "init"
   /\ (~nt.enabled \/ nt.status \notin {"up", "down"} \/ Len(nt.targets) = 0))
    => /\ nt.pc = "returned"
       /\ \A i \in NtTargetIds : nt.attempts[i] = 0 /\ nt.tpc[i] = "idle"

\* disabled, with two targets subscribed to the status of the event
C17_Witness ==
  /\ nt.pc = "returned"
  /\ ~nt.enabled
  /\ nt.status = "down"
  /\ Len(nt.targets) = 2
  /\ \A i \in NtTargetIds : nt.targets[i].events = DefaultEvents
  /\ nt.attempts = <<0, 0>>

\* the targets of the environment that have their url or token and channel
NtValidRaw == SelectSeq(nt.raw, LAMBDA r : r.valid)

\* the statuses the "events" list of a raw target names
NtNamed(r) ==
  {st \in {"up", "down"} :
     \E k \in 1..Len(r.events.items) :
       \/ st = "up" /\ r.events.items[k] = "up"
       \/ st = "down" /\ r.events.items[k] = "DOWN "}

\* the subscription of configured target i: the statuses its list names, or
\* both when it has no list or its list names neither
NtSubscription(i) ==
  IF i > Len(NtValidRaw)
    THEN {"up", "down"}
    ELSE IF NtValidRaw[i].events.isArray /\ NtNamed(NtValidRaw[i]) # {}
           THEN NtNamed(NtValidRaw[i])
           ELSE {"up", "down"}

\* C18: for a dispatched transition delivery is attempted exactly once to
\* each configured target whose subscribed event set contains the new status
\* and not at all to the others; a target configured without a valid event
\* list is subscribed to both up and down.
C18_OneAttemptPerSubscribedTarget ==
  (/\ nt.pc \in {"running", "returned"}
   /\ nt.enabled /\ nt.status \in {"up", "down"} /\ Len(nt.targets) > 0)
    => /\ Len(nt.targets) = Len(NtValidRaw) + (IF nt.slack THEN 1 ELSE 0)
       /\ \A i \in NtTargetIds :
            nt.attempts[i] = IF nt.status \in NtSubscription(i) THEN 1 ELSE 0

\* status up: the target that lists only down was skipped, the target with
\* no list was delivered
C18_Witness ==
  /\ nt.pc = "returned"
  /\ nt.status = "up"
  /\ Len(nt.raw) = 2 /\ ~nt.slack
  /\ nt.raw[1] = [valid |-> TRUE, events |-> [isArray |-> TRUE, items |-> <<"DOWN ">>]]
  /\ nt.raw[2] = [valid |-> TRUE, events |-> [isArray |-> FALSE, items |-> <<>>]]
  /\ nt.tpc = <<"skipped", "delivered">>
  /\ nt.attempts = <<0, 1>>

\* C19: no probe executor ever raises to its caller: every failure at any
\* step is converted into a result with checkPassed = false and a non-empty
\* error message.
C19_ProbesNeverRaise ==
  /\ pr.pc # "raised"
  /\ (pr.pc = "returned" /\ pr.error # "none")
       => (~pr.result.checkPassed /\ pr.result.errorMessage)

\* C20: for every protocol, if the remote side never responds at some
\* network-facing step of a probe, the probe still terminates through a
\* timeout and the check is recorded as failed: no probe is left waiting
\* for ever, and a probe that met silence returns a failed result.
C20_SilenceEndsInTimeout ==
  /\ pr.pc # "hung"
  /\ (pr.pc = "returned" /\ pr.error = "timeout") => ~pr.result.checkPassed

(***************************************************************************)
(* C21: an error raised while one endpoint's check executes (the probe     *)
(* throws, the UPDATE or the INSERT rejects) never leaves tick(): no       *)
(* rejection of a tick's check reaches the runtime without a handler.      *)
(* tick() has try/finally and no catch, and is called as void tick().      *)
(***************************************************************************)
C21_CheckErrorsStayInsideTick == "check" \notin hist.unhandled

\* the checks in flight whose verdict is returned and whose INSERT is not done
BeforeInsert ==
  [c \in {d \in InFlight : d.pc \in {"update", "insert"}} |-> CopiesIn(c, checks)]

\* check c, which was at its INSERT, passes it in this step: it is awaiting the
\* notification, or its monitor:checked event has been emitted
PassesInsert(c) ==
  /\ c.pc = "insert"
  /\ CopiesIn(c, checks') < CopiesIn(c, checks)
  /\ \/ hist'.events > hist.events
     \/ CopiesIn([c EXCEPT !.pc = "notify"], checks') >
          CopiesIn([c EXCEPT !.pc = "notify"], checks)

AwaitingDelivery == {c \in InFlight : c.pc \in {"notify", "silent"}}

(***************************************************************************)
(* C23: a notification delivery that fails or never gets a response does   *)
(* not keep the check that triggered it from completing nor its tick from  *)
(* ending.  The step in which a check leaves notifyStatusChange is a       *)
(* normal return: nothing is rejected, the process runs on, and the tick   *)
(* that awaited the check ends; and every check that awaits a delivery     *)
(* leads to isTickRunning = FALSE, so that the next firing runs a tick.    *)
(***************************************************************************)
C23_DeliveryNeverBlocksTick ==
  /\ [][ \A c \in AwaitingDelivery :
           CopiesIn(c, checks') < CopiesIn(c, checks)
             => \/ c.pc = "notify" /\ CopiesIn([c EXCEPT !.pc = "silent"], checks') > 0
                \/ /\ alive'
                   /\ hist'.unhandled = hist.unhandled
                   /\ c.awaited => ~isTickRunning' /\ tickPc' = "idle"
       ]_vars
  /\ (AwaitingDelivery # {}) ~> (AwaitingDelivery = {} /\ ~isTickRunning /\ alive)

\* the sink has not answered, a firing of the timer was dropped meanwhile
C23_Witness ==
  /\ \E c \in InFlight : c.pc = "silent" /\ c.awaited
  /\ isTickRunning
  /\ ticks.skipped = 1

(***************************************************************************)
(* C24: after a tick has ended, by its end or by an error of the query or  *)
(* of a check, isTickRunning is FALSE, and the call of tick() by the next  *)
(* firing of the timer is not skipped: it sets the flag and issues the     *)
(* query.                                                                  *)
(***************************************************************************)
C24_FlagClearedWhenTickEnds ==
  [][ /\ tickPc = "idle" => ~isTickRunning
      /\ (tickPc # "idle" /\ tickPc' = "idle") => ~isTickRunning'
      /\ (tickPc = "idle" /\ ticks'.calls # ticks.calls)
           => /\ ticks'.skipped = ticks.skipped
              /\ isTickRunning' /\ tickPc' = "query"
    ]_vars

\* a check of the first tick threw while the other check of its batch was in
\* flight, and the second call of tick() has issued its query
C24_Witness ==
  /\ "check" \in hist.unhandled
  /\ alive
  /\ ticks = [calls |-> 2, skipped |-> 0]
  /\ tickPc = "query" /\ isTickRunning
  /\ \E c \in InFlight : c.origin = "tick" /\ ~c.awaited

(***************************************************************************)
(* C25: every connection or socket a probe opens is closed before the      *)
(* probe returns, on every outcome: a probe that has returned has left no  *)
(* connection or socket open.                                              *)
(***************************************************************************)
C25_SocketClosedBeforeReturn ==
  pr.pc = "returned" => pr.socket # "open"

\* the drawn configuration holds one of the configuration errors: a
\* connection_json that is not the JSON of an object, a TCP port outside
\* 1..65535, an HTTP method that is not supported
ConfigurationError ==
  \/ pr.kind # "http" /\ pr.connection_json.form \in {"malformed", "array"}
  \/ /\ pr.kind = "tcp" /\ pr.connection_json.form = "object"
     /\ pr.connection_json.port.is # "absent"
     /\ \/ pr.connection_json.port.is = "text"
        \/ pr.connection_json.port.n \notin 1..MaxPort
  \/ pr.kind = "http" /\ pr.method \notin ALLOWED_METHODS

C27_StreamNameCheckedBeforeConnect ==
  (/\ pr.pc = "applied" /\ pr.kind = "nats"
   /\ pr.probe_command.head = "stream.info:"
   /\ Trim(pr.probe_command.rest) = "")
    => pr.trace = <<"rejected">>

\* check c, which was awaiting its UPDATE, has had it done in this step
PassesUpdate(c) ==
  /\ c.pc = "update"
  /\ CopiesIn(c, checks') < CopiesIn(c, checks)
  /\ CopiesIn([c EXCEPT !.pc = "insert"], checks') >
       CopiesIn([c EXCEPT !.pc = "insert"], checks)

(***************************************************************************)
(* C28: a manual check-now on an endpoint that is not paused starts the    *)
(* check whether or not next_check_at has elapsed, and the check goes      *)
(* through the steps of a tick check: its UPDATE writes the output of      *)
(* computeStatus on the row it read and sets next_check_at to the time of  *)
(* the UPDATE plus the interval, and its INSERT appends one check run.     *)
(***************************************************************************)
C28_ManualCheckBypassesDueTime ==
  [][ /\ \A e \in EndpointIds :
           (/\ hist'.manual[e] # hist.manual[e]
            /\ db[e].present /\ ~db[e].is_paused)
             => checks' = checks (+) One(StartedCheck(e, "manual"))
      /\ \A c \in InFlight :
           (c.origin = "manual" /\ PassesUpdate(c) /\ db[c.id].present)
             => /\ db'[c.id].next_check_at = now + db[c.id].interval_seconds
                /\ \E checkPassed \in BOOLEAN :
                     LET next == computeStatus(c.endpoint, checkPassed)
                     IN  /\ db'[c.id].status = next.status
                         /\ db'[c.id].consecutive_failures = next.failures
                         /\ db'[c.id].consecutive_successes = next.successes
      /\ \A c \in InFlight :
           (c.origin = "manual" /\ PassesInsert(c))
             => hist'.runs =
                  Append(hist.runs, [endpoint_id |-> c.id, status |-> c.next.status])
    ]_vars

\* at time 0 the endpoint was due at time 5; the manual check asked for at
\* time 0 has had its UPDATE done and the endpoint is now due at time 10,
\* while the tick of time 0 has started no check
C28_Witness ==
  /\ now = 0
  /\ hist.manual[1] = 1
  /\ \E c \in InFlight :
       /\ c.origin = "manual" /\ c.pc = "insert"
       /\ c.endpoint.next_check_at = MinInterval
  /\ db[1].next_check_at = 2 * MinInterval
  /\ ticks.calls = 1 /\ tickPc = "idle"
  /\ BagCardinality(checks) = 1

\* the persisted (status, consecutive_failures, consecutive_successes)
Persisted(row) ==
  [status    |-> row.status,
   failures  |-> row.consecutive_failures,
   successes |-> row.consecutive_successes]

(***************************************************************************)
(* C29: when a manual check and a tick check overlap on one endpoint, the  *)
(* persisted (status, consecutiveFailures, consecutiveSuccesses) is the    *)
(* output of the state machine for the check that wrote last: every step   *)
(* that changes one of the three fields of a row is the UPDATE of one      *)
(* check and leaves all three equal to the output of computeStatus on the  *)
(* row that check read, and the UPDATE of a check always leaves them so.   *)
(***************************************************************************)
C29_LastWriterWinsWhole ==
  [][ /\ \A e \in EndpointIds :
           (db[e].present /\ db'[e].present /\ Persisted(db'[e]) # Persisted(db[e]))
             => \E c \in InFlight :
                  /\ c.id = e /\ PassesUpdate(c)
                  /\ Persisted(db'[e]) = c.next
      /\ \A c \in InFlight :
           (PassesUpdate(c) /\ db[c.id].present)
             => /\ Persisted(db'[c.id]) = c.next
                /\ \E checkPassed \in BOOLEAN :
                     c.next = computeStatus(c.endpoint, checkPassed)
    ]_vars

\* a manual check and a tick check of endpoint 1 with different outputs: the
\* manual one has written, the tick one is about to write over it
C29_Witness ==
  \E c \in InFlight : \E d \in InFlight :
    /\ c.origin = "manual" /\ d.origin = "tick" /\ c.id = d.id
    /\ c.pc = "insert" /\ d.pc = "update"
    /\ c.next # d.next
    /\ c.next.status # d.next.status
    /\ db[c.id].present /\ Persisted(db[c.id]) = c.next

\* the drawn endpoint with each threshold below 1 replaced by 1
CsFloored ==
  [cs.endpoint EXCEPT !.down_retries = IF @ < 1 THEN 1 ELSE @,
                      !.up_retries = IF @ < 1 THEN 1 ELSE @]

(***************************************************************************)
(* C30: computeStatus treats a downRetries or upRetries below 1 (0,        *)
(* negative, null, not a number) exactly as 1: the threshold made of such  *)
(* a value is 1, the output for an endpoint with such thresholds is the    *)
(* output for the same endpoint with thresholds 1, one failure moves any   *)
(* status to down and one pass moves down to up.                           *)
(***************************************************************************)
C30_ThresholdsBelowOneAreOne ==
  cs.done =>
    /\ (cs.js.is \in {"null", "text"} \/ cs.js.n < 1) => cs.threshold = 1
    /\ cs.result = computeStatus(CsFloored, cs.checkPassed)
    /\ (cs.endpoint.down_retries < 1 /\ ~cs.checkPassed) => cs.result.status = "down"
    /\ (cs.endpoint.up_retries < 1 /\ cs.endpoint.status = "down" /\ cs.checkPassed)
         => cs.result.status = "up"

\* an endpoint that is up with no failure so far and down_retries -1 has
\* failed once and is down; the threshold of a text that is no number is 1
C30_Witness ==
  /\ cs.done /\ ~cs.checkPassed
  /\ cs.endpoint.status = "up" /\ cs.endpoint.consecutive_failures = 0
  /\ cs.endpoint.down_retries = 0 - 1
  /\ cs.result = [status |-> "down", failures |-> 1, successes |-> 0]
  /\ cs.js.is = "text" /\ cs.threshold = 1

\* C31: the comparator succeeds exactly when expectedRaw is empty or absent,
\* or the actual value equals the expected value (expectedRaw parsed as JSON,
\* or its trimmed text when it is not JSON): same type and same value for
\* primitives, same serialisation for objects and arrays.  So the number 5
\* matches "5", the object {a:1} matches '{"a":1}', and the string PONG does
\* not match the JSON string "pong".
EmptyOrAbsent(raw) == raw.absent \/ raw.form = "empty"

ExpectedOf(raw) ==
  IF JsonParse(raw).threw THEN ValString(raw.s) ELSE JsonParse(raw).value

SameValue(a, e) ==
  /\ a.type = e.type
  /\ a.n = e.n
  /\ a.s = e.s
  /\ a.entries = e.entries

C31_ComparatorDecides ==
  cmp.done =>
    /\ cmp.result.ok = (EmptyOrAbsent(cmp.expectedRaw)
                          \/ SameValue(cmp.actual, ExpectedOf(cmp.expectedRaw)))
    /\ (cmp.actual = ValNumber(5) /\ cmp.expectedRaw.form = "digits"
          /\ cmp.expectedRaw.n = 5) => cmp.result.ok
    /\ (cmp.actual = ValObject(<<Entry("a", 1)>>) /\ cmp.expectedRaw.form = "braces"
          /\ cmp.expectedRaw.entries = <<Entry("a", 1)>>) => cmp.result.ok
    /\ (cmp.actual = ValString("PONG") /\ cmp.expectedRaw.form = "quoted"
          /\ cmp.expectedRaw.s = "pong") => ~cmp.result.ok

C31_Witness ==
  /\ cmp.done
  /\ cmp.actual = ValNumber(5)
  /\ cmp.expectedRaw = Text("digits", TRUE, 5, "", <<>>)
  /\ cmp.result.ok

\* C32: after the UPDATE of an executed check, exactly one of the persisted
\* consecutive_failures and consecutive_successes of the checked endpoint is
\* zero and the other is at least 1.
OneCounterRuns(row) ==
  \/ row.consecutive_failures = 0 /\ row.consecutive_successes >= 1
  \/ row.consecutive_successes = 0 /\ row.consecutive_failures >= 1

C32_ExactlyOneCounterIsZero ==
  [][\A c \in InFlight : PassesUpdate(c) => OneCounterRuns(db'[c.id])]_vars

C32_Witness ==
  /\ \E c \in InFlight : c.pc = "insert" /\ c.id = 1 /\ c.next.failures = 1
  /\ db[1].consecutive_failures = 1
  /\ db[1].consecutive_successes = 0

\* C33: an endpoint created (pending, 0, 0) whose thresholds are not edited
\* has, in every persisted state: up implies consecutive_failures <
\* down_retries; down implies consecutive_successes < up_retries; pending
\* implies consecutive_successes = 0 and consecutive_failures < down_retries.
WithinThresholds(row) ==
  /\ row.status = "up" => row.consecutive_failures < row.down_retries
  /\ row.status = "down" => row.consecutive_successes < row.up_retries
  /\ row.status = "pending" =>
       /\ row.consecutive_successes = 0
       /\ row.consecutive_failures < row.down_retries

C33_CountersBelowThresholds ==
  \A e \in EndpointIds : db[e].present => WithinThresholds(db[e])

C33_Witness ==
  /\ Len(seq.verdicts) >= 3
  /\ db[1].status = "down"
  /\ db[1].consecutive_successes >= 1
  /\ db[1].consecutive_successes = db[1].up_retries - 1

\* C34: while the process runs (the timer keeps firing, every check
\* terminates), an endpoint that is not paused and whose next_check_at has
\* elapsed is eventually checked, also when more endpoints are due than the
\* query's LIMIT.
Elapsed(e) == db[e].present /\ ~db[e].is_paused /\ db[e].next_check_at <= now

CheckedNow(e) == \E c \in InFlight : c.id = e

C34_DueEndpointEventuallyChecked ==
  \A e \in EndpointIds : ([]alive) => (Elapsed(e) ~> CheckedNow(e))

\* C35: each change of an endpoint's persisted status causes at most one
\* call of notifyStatusChange, also when a manual check and a tick check of
\* the endpoint overlap: runCheck never has dispatched more notifications
\* than its UPDATEs have changed a persisted status.
C35_OneDispatchPerStatusChange ==
  hist.dispatched <= hist.changes

\* C36: the persisted consecutive_failures of an endpoint equals the number
\* of failed check runs appended for it since its latest passed check run,
\* and consecutive_successes the number of passed runs since its latest
\* failed run, also when a manual check and a tick check of the endpoint
\* overlap.  Compared while no check of the endpoint is under way and no
\* check has thrown.
Settled(e) ==
  /\ alive
  /\ hist.unhandled = {}
  /\ db[e].present
  /\ ~\E c \in InFlight : c.id = e

C36_CountersMatchRecordedRuns ==
  \A e \in EndpointIds :
    Settled(e) =>
      /\ db[e].consecutive_failures = hist.streak[e].failed
      /\ db[e].consecutive_successes = hist.streak[e].passed

\* C37: while an endpoint is paused, no step of the engine (a step that is
\* not a request to the API) changes its status, its counters or its
\* next_check_at, appends a check run for it or dispatches a notification
\* for it, also when the check was started before the pause.
RunsOf(h, e) == {i \in 1..Len(h.runs) : h.runs[i].endpoint_id = e}

C37_PausedEndpointUntouched ==
  [][\A e \in EndpointIds :
       (db[e].present /\ db[e].is_paused /\ ops' = ops) =>
         /\ db'[e].status = db[e].status
         /\ db'[e].consecutive_failures = db[e].consecutive_failures
         /\ db'[e].consecutive_successes = db[e].consecutive_successes
         /\ db'[e].next_check_at = db[e].next_check_at
         /\ RunsOf(hist', e) = RunsOf(hist, e)
         /\ {ev \in notified' : ev.endpointId = e} = {ev \in notified : ev.endpointId = e}]_vars

\* C38: the UPDATE of an executed check changes only the status, the two
\* counters and next_check_at of the checked endpoint: the pause flag, the
\* interval and the thresholds of that row, and every other row, are as
\* they were, so an edit committed while the check was in flight stays.
C38_UpdateWritesCheckFieldsOnly ==
  [][\A c \in InFlight :
       PassesUpdate(c) =>
         /\ db'[c.id].present = db[c.id].present
         /\ db'[c.id].is_paused = db[c.id].is_paused
         /\ db'[c.id].interval_seconds = db[c.id].interval_seconds
         /\ db'[c.id].down_retries = db[c.id].down_retries
         /\ db'[c.id].up_retries = db[c.id].up_retries
         /\ \A e \in EndpointIds \ {c.id} : db'[e] = db[e]]_vars

\* a check has written its UPDATE after PUT had edited the interval and the
\* thresholds of the row the check had read
C38_Witness ==
  \E c \in InFlight :
    /\ c.pc = "insert"
    /\ db[c.id].present
    /\ db[c.id].interval_seconds # c.endpoint.interval_seconds
    /\ db[c.id].down_retries # c.endpoint.down_retries
    /\ db[c.id].next_check_at > now
    /\ db[c.id].status = c.next.status

\* C39: within one executed check the steps come in the order probe, UPDATE
\* of the endpoint, INSERT of the check run, monitor:checked, notification.
\* The UPDATE of a check appends no run, emits no event and dispatches
\* nothing; the step that appends its run emits its event, whose payload
\* carries a status and counters that an UPDATE of that endpoint has
\* persisted before; and a notification is dispatched only in a step in
\* which the event is emitted, for the status of that payload.
C39_CheckStepsInOrder ==
  [][ /\ \A c \in InFlight :
           PassesUpdate(c) =>
             /\ c.next # NoComputation
             /\ hist'.runs = hist.runs
             /\ hist'.events = hist.events
             /\ notified' = notified /\ hist'.dispatched = hist.dispatched
      /\ \A c \in InFlight :
           PassesInsert(c) =>
             /\ Len(hist'.runs) = Len(hist.runs) + 1
             /\ hist'.events = hist.events + 1
             /\ hist'.payload.endpointId = c.id
             /\ hist'.payload \in hist.written
      /\ (hist'.dispatched # hist.dispatched \/ notified' # notified) =>
           /\ hist'.events = hist.events + 1
           /\ hist'.payload \in hist.written
           /\ \E ev \in notified' :
                /\ ev.endpointId = hist'.payload.endpointId
                /\ ev.currentStatus = hist'.payload.status
    ]_vars

\* a check has gone through all its steps up to the dispatch
C39_Witness ==
  /\ hist.dispatched = 1
  /\ hist.events = 1
  /\ hist.payload.status = "up"
  /\ hist.payload.consecutiveSuccesses = 1
  /\ \E c \in InFlight : c.pc = "notify" /\ CheckedPayload(c) = hist.payload

\* C40: for any sequence of startMonitor and stopMonitor calls at most one
\* interval timer exists, and it is the one the module variable holds.  A
\* startMonitor while running and a stopMonitor while stopped change
\* nothing: no timer, no tick.  A tick begins only while the timer is set
\* (so none begins after stopMonitor until the next startMonitor), and
\* stopMonitor leaves the tick in flight and its checks as they are.
C40_AtMostOneTimer ==
  [][ /\ intervals' <= 1
      /\ timer' <=> (intervals' = 1)
      /\ (hist'.returned # hist.returned) =>
           UNCHANGED <<timer, intervals, ticks, isTickRunning, tickPc, checks, db>>
      /\ (ticks'.calls > ticks.calls) => timer'
      /\ (timer /\ ~timer' /\ alive') =>
           UNCHANGED <<ticks, isTickRunning, tickPc, checks, db>>
    ]_vars

\* startMonitor has been called while running, stopMonitor has stopped the
\* scheduler with a tick in flight and has been called again
C40_Witness ==
  /\ hist.returned.start = 1
  /\ hist.returned.stop = 1
  /\ ~timer
  /\ intervals = 0
  /\ isTickRunning
  /\ tickPc = "await"
  /\ ticks.calls = 1

=============================================================================
